---- MODULE Spec2Model ----
(***************************************************************************)
(* SentinelNav: the chunkers (FixedScanner, SentinelScanner), the scan     *)
(* driver (Processor.run with its worker pool), the record store           *)
(* (DataEngine) and the HTTP handlers that share the session state.        *)
(*                                                                         *)
(* The repository holds the program twice: the single file sentinelnav.py  *)
(* ("mono") and the package sentinel/ ("pkg").  Where the two differ the   *)
(* variable impl says which one runs; it is chosen in Init and never       *)
(* changes.                                                                *)
(*                                                                         *)
(* Specifications:                                                         *)
(*   SpecChunk  one chunker generator run step by step over every small    *)
(*              file, mode, block size and delimiter;                      *)
(*   Spec       the session: main's first scan, then request handler       *)
(*              threads (/load, /data, /, /download?mode=bmp) interleaved; *)
(*   SpecScan   the result loop of Processor.run over every short stream   *)
(*              of worker results and every small window;                  *)
(*   SpecSearch one /search handler over every small file and query;       *)
(*   SpecArch   ArchID.identify on every short slice;                      *)
(*   SpecRead   one /read handler over every small file, offset, length;   *)
(*   SpecData   one /data handler with any page and size on a scanned      *)
(*              store;                                                     *)
(*   SpecMain   main() from the first scan to the end of the process;      *)
(*   SpecWorker _worker_scan on every short chunk;                         *)
(*   SpecBmp    BMPGenerator.create_bmp on every short stream of rows;     *)
(*   SpecFreq   ArchID.identify on slices that reach the frequency scores; *)
(*   SpecEntropy  FastMath.entropy on short inputs and on all 256 values;  *)
(*   SpecFail   the result loop when a worker raises on some chunk;        *)
(*   SpecRescan a /load rescan after the first scan, any worker results;   *)
(*   SpecChunkFair, SpecSearchFair  SpecChunk and SpecSearch with weak     *)
(*              fairness of their next-state actions (the generator and    *)
(*              the handler keep running), for the termination claims.     *)
(***************************************************************************)
EXTENDS Integers, Sequences, FiniteSets, TLC

VARIABLES
    impl,        \* "mono" (sentinelnav.py) or "pkg" (sentinel/)
    \* ---- SpecChunk: one generator yield_raw_chunks(path)
    cfile,       \* the bytes of the file being chunked
    cscanner,    \* [mode, size, delimiter]: the scanner object
    gen,         \* the generator's frame: pc, file position, offset, buffer, read_chunk, chunks yielded
    \* ---- Spec: the session
    config,      \* SERVER_CONFIG / ServerContext.config
    file_path,   \* SERVER_FILE_PATH / ServerContext.file_path
    ENGINE,      \* the store handle: index into engines, 0 for None
    engines,     \* every DataEngine created so far: [open, rows, cursor]
    pc,          \* thread -> position in its handler
    loc,         \* thread -> the handler's local variables
    nreq         \* requests accepted so far

chunkVars == <<cfile, cscanner, gen>>
srvVars == <<config, file_path, ENGINE, engines, pc, loc, nreq>>
vars == <<impl, cfile, cscanner, gen, config, file_path, ENGINE, engines, pc, loc, nreq>>

(***************************************************************************)
(* Bounds                                                                  *)
(***************************************************************************)
\* longest file of SpecChunk, in bytes
MaxFileLen == 5
\* block_size / max_size range over 1..MaxSize
MaxSize == 3
\* the files of SpecChunk use the first NumBytes values of ByteTable
NumBytes == 2
\* bytes returned by one f.read in SentinelScanner (65536 in the program)
SlabSize == 2

ByteTable == <<0, 65, 200, 127, 10>>
Bytes == {ByteTable[i] : i \in 1..NumBytes}

Min(a, b) == IF a < b THEN a ELSE b
Max(a, b) == IF a > b THEN a ELSE b

BSeq(S, n) == UNION {[1..k -> S] : k \in 0..n}

Impls == {"mono", "pkg"}

(***************************************************************************)
(* Python helpers                                                          *)
(***************************************************************************)
\* f.read(n) at position pos of a file f opened 'rb'
ReadBytes(f, pos, n) == SubSeq(f, pos + 1, Min(pos + n, Len(f)))

\* bytearray.find(b): 0-based index of the first occurrence, -1 if none
Find(buffer, d) ==
    IF \E i \in 1..Len(buffer) : buffer[i] = d
    THEN (CHOOSE i \in 1..Len(buffer) :
              buffer[i] = d /\ \A j \in 1..(i - 1) : buffer[j] # d) - 1
    ELSE -1

\* buffer[:n]
Prefix(buffer, n) == SubSeq(buffer, 1, Min(n, Len(buffer)))

\* del buffer[:n]
DelPrefixOffByOne(buffer, n) == SubSeq(buffer, Min(n + 1, Len(buffer)) + 1, Len(buffer))
DelPrefix(buffer, n) == SubSeq(buffer, Min(n, Len(buffer)) + 1, Len(buffer))

(***************************************************************************)
(* Chunkers                                                                *)
(***************************************************************************)
GenInit == [pc |-> "read", fpos |-> 0, offset |-> 0,
            buffer |-> <<>>, read_chunk |-> <<>>, out |-> <<>>]

\* yield (offset, data)
Yield(g, data) == [g EXCEPT !.out = Append(@, [offset |-> g.offset, data |-> data])]

\* offset += len(data) / offset += cut_len
AdvanceByBlock(offset, n, size) == offset + size
Advance(offset, n, size) == offset + n

\* FixedScanner.yield_raw_chunks: one iteration of while True
FixedStepNoBreak(g, f, block_size) ==
    LET data == ReadBytes(f, g.fpos, block_size) IN
    IF data = <<>>
    THEN g
    ELSE [Yield(g, data) EXCEPT !.fpos = @ + Len(data),
                                !.offset = Advance(@, Len(data), block_size)]
FixedStepYieldsAtEof(g, f, block_size) ==
    LET data == ReadBytes(f, g.fpos, block_size) IN
    IF data = <<>>
    THEN [Yield(g, data) EXCEPT !.pc = "done"]
    ELSE [Yield(g, data) EXCEPT !.fpos = @ + Len(data),
                                !.offset = Advance(@, Len(data), block_size)]
FixedStep(g, f, block_size) ==
    LET data == ReadBytes(f, g.fpos, block_size) IN
    IF data = <<>>
    THEN [g EXCEPT !.pc = "done"]
    ELSE [Yield(g, data) EXCEPT !.fpos = @ + Len(data),
                                !.offset = Advance(@, Len(data), block_size)]

\* SentinelScanner.yield_raw_chunks: the head of one iteration of the outer
\* while True: read a slab, stop when input and buffer are both exhausted
SentinelReadStep(g, f) ==
    LET read_chunk == ReadBytes(f, g.fpos, SlabSize) IN
    IF read_chunk = <<>> /\ g.buffer = <<>>
    THEN [g EXCEPT !.pc = "done", !.read_chunk = read_chunk]
    ELSE [g EXCEPT !.pc = "cut", !.fpos = @ + Len(read_chunk),
                   !.read_chunk = read_chunk,
                   !.buffer = @ \o read_chunk]

\* The cut decision of the package's inner loop: [brk, cut_len]
CutPkgNoClamp(buffer, read_chunk, delimiter, max_size) ==
    LET idx == Find(buffer, delimiter)
        cut_len == IF idx # -1 THEN idx + 1
                   ELSE IF Len(buffer) >= max_size THEN max_size ELSE Len(buffer)
    IN  IF idx = -1 /\ read_chunk # <<>> /\ Len(buffer) < max_size
        THEN [brk |-> TRUE, cut_len |-> cut_len]
        ELSE [brk |-> FALSE, cut_len |-> cut_len]
CutPkg(buffer, read_chunk, delimiter, max_size) ==
    LET idx == Find(buffer, delimiter)
        cut_len == IF idx # -1 THEN idx + 1
                   ELSE IF Len(buffer) >= max_size THEN max_size ELSE Len(buffer)
    IN  IF idx = -1 /\ read_chunk # <<>> /\ Len(buffer) < max_size
        THEN [brk |-> TRUE, cut_len |-> cut_len]
        ELSE IF idx # -1 /\ cut_len > max_size
             THEN [brk |-> FALSE, cut_len |-> max_size]
             ELSE [brk |-> FALSE, cut_len |-> cut_len]

\* The cut decision of the monolith's inner loop: [brk, cut_len]
CutMonoNoWait(buffer, read_chunk, delimiter, max_size) ==
    LET idx == Find(buffer, delimiter) IN
    IF idx # -1
    THEN [brk |-> FALSE, cut_len |-> IF idx + 1 > max_size THEN max_size ELSE idx + 1]
    ELSE IF Len(buffer) >= max_size THEN [brk |-> FALSE, cut_len |-> max_size]
         ELSE [brk |-> FALSE, cut_len |-> Len(buffer)]
CutMono(buffer, read_chunk, delimiter, max_size) ==
    LET idx == Find(buffer, delimiter) IN
    IF idx # -1
    THEN [brk |-> FALSE, cut_len |-> IF idx + 1 > max_size THEN max_size ELSE idx + 1]
    ELSE IF Len(buffer) >= max_size THEN [brk |-> FALSE, cut_len |-> max_size]
         ELSE IF read_chunk = <<>> THEN [brk |-> FALSE, cut_len |-> Len(buffer)]
         ELSE [brk |-> TRUE, cut_len |-> 0]

\* SentinelScanner.yield_raw_chunks: the test and one iteration of the inner
\* while len(buffer) > 0
SentinelCutStep(g, im, delimiter, max_size) ==
    IF Len(g.buffer) = 0
    THEN [g EXCEPT !.pc = "read"]
    ELSE LET c == IF im = "pkg"
                  THEN CutPkg(g.buffer, g.read_chunk, delimiter, max_size)
                  ELSE CutMono(g.buffer, g.read_chunk, delimiter, max_size)
         IN  IF c.brk
             THEN [g EXCEPT !.pc = "read"]
             ELSE [Yield(g, Prefix(g.buffer, c.cut_len)) EXCEPT
                       !.offset = Advance(@, c.cut_len, max_size),
                       !.buffer = DelPrefix(@, c.cut_len)]

\* One step of the generator of scanner sc over file f
GenStep(g, f, sc, im) ==
    IF sc.mode = "FIXED" THEN FixedStep(g, f, sc.size)
    ELSE IF g.pc = "read" THEN SentinelReadStep(g, f)
    ELSE SentinelCutStep(g, im, sc.delimiter, sc.size)

\* list(scanner.yield_raw_chunks(path)): the generator run to exhaustion
RECURSIVE RunGen(_, _, _, _)
RunGen(g, f, sc, im) ==
    IF g.pc = "done" THEN g.out ELSE RunGen(GenStep(g, f, sc, im), f, sc, im)

yield_raw_chunks(f, sc, im) == RunGen(GenInit, f, sc, im)

(***************************************************************************)
(* Worker                                                                  *)
(***************************************************************************)
\* round(1e6 * log2(n)) for n = 1..16
Log2Micro == <<0, 1000000, 1584963, 2000000, 2321928, 2584963, 2807355, 3000000,
               3169925, 3321928, 3459432, 3584963, 3700440, 3807355, 3906891, 4000000>>

\* round(1e6 * log2(n)) for n = 1..16 and for n = 2^k * m with m <= 16
RECURSIVE Log2MicroOf(_)
Log2MicroOf(n) == IF n <= 16 THEN Log2Micro[n] ELSE 1000000 + Log2MicroOf(n \div 2)

\* Counter(data)
Counter(data) ==
    [b \in {data[i] : i \in 1..Len(data)} |->
        Cardinality({i \in 1..Len(data) : data[i] = b})]

RECURSIVE SumOver(_, _)
SumOver(fn, S) ==
    IF S = {} THEN 0
    ELSE LET x == CHOOSE y \in S : TRUE IN fn[x] + SumOver(fn, S \ {x})

\* round(FastMath.entropy(data), 3), in thousandths of a bit:
\* H = log2 n - (1/n) * sum c*log2 c
entropy(data) ==
    IF data = <<>> THEN 0
    ELSE LET n == Len(data)
             counts == Counter(data)
             w == [b \in DOMAIN counts |-> counts[b] * Log2Micro[counts[b]]]
             num == n * Log2Micro[n] - SumOver(w, DOMAIN counts)
             den == n * 1000
         IN  (2 * num + den) \div (2 * den)

\* round(c / length, 3) in thousandths (no tie arises for length <= 8)
Round3(c, length) == (2000 * c + length) \div (2 * length)

\* sum of the counts of the bytes in lo..hi
BandCount(data, lo, hi) == Cardinality({i \in 1..Len(data) : lo <= data[i] /\ data[i] <= hi})

\* _worker_scan((offset, data)) -> (offset, length, ent, r, g, b)
WorkerScan(chunk) ==
    IF chunk.data = <<>>
    THEN [offset |-> chunk.offset, length |-> 0, ent |-> 0, r |-> 0, g |-> 0, b |-> 0]
    ELSE LET length == Len(chunk.data) IN
         [offset |-> chunk.offset, length |-> length, ent |-> entropy(chunk.data),
          r |-> Round3(BandCount(chunk.data, 128, 255), length),
          g |-> Round3(BandCount(chunk.data, 32, 126), length),
          b |-> Round3(BandCount(chunk.data, 0, 31), length)]

(***************************************************************************)
(* Anomaly detector (the body of the result loop of Processor.run)         *)
(***************************************************************************)
\* Entropies are thousandths of a bit.  anom_score is kept exactly, in units
\* of 1/(1000*ScoreUnit): ScoreUnit = 2*lcm(1..10), so that diff/2.0 over a
\* history of up to 10 entropies is a whole number of units.
ScoreUnit == 16 * 9 * 5 * 7

Abs(x) == IF x < 0 THEN -x ELSE x

RECURSIVE SeqSum(_)
SeqSum(s) == IF s = <<>> THEN 0 ELSE Head(s) + SeqSum(Tail(s))

\* if len(hist_ent) >= window_size: anom_score = min(1.0, abs(ent - avg) / 2.0)
AnomBaseAnyHistory(ent, hist_ent, window_size) ==
    IF Len(hist_ent) > 0
    THEN LET n == Len(hist_ent) IN
         Min(1000 * ScoreUnit, Abs(ent * n - SeqSum(hist_ent)) * (ScoreUnit \div (2 * n)))
    ELSE 0
AnomBaseNoClamp(ent, hist_ent, window_size) ==
    IF Len(hist_ent) >= window_size /\ Len(hist_ent) > 0
    THEN LET n == Len(hist_ent) IN
         Abs(ent * n - SeqSum(hist_ent)) * (ScoreUnit \div (2 * n))
    ELSE 0
AnomBase(ent, hist_ent, window_size) ==
    IF Len(hist_ent) >= window_size /\ Len(hist_ent) > 0
    THEN LET n == Len(hist_ent) IN
         Min(1000 * ScoreUnit, Abs(ent * n - SeqSum(hist_ent)) * (ScoreUnit \div (2 * n)))
    ELSE 0

\* the if/elif/elif on delta and ent: [flux_type, bonus]
FluxSustainedFirst(ent, prev_ent) ==
    LET delta == ent - prev_ent IN
    IF ent > 7950 THEN [flux_type |-> 3, bonus |-> 500 * ScoreUnit]
    ELSE IF delta > 1500 /\ ent > 6000 THEN [flux_type |-> 1, bonus |-> 800 * ScoreUnit]
    ELSE IF delta < -1500 /\ ent < 3000 THEN [flux_type |-> 2, bonus |-> 800 * ScoreUnit]
    ELSE [flux_type |-> 0, bonus |-> 0]
Flux(ent, prev_ent) ==
    LET delta == ent - prev_ent IN
    IF delta > 1500 /\ ent > 6000 THEN [flux_type |-> 1, bonus |-> 800 * ScoreUnit]
    ELSE IF delta < -1500 /\ ent < 3000 THEN [flux_type |-> 2, bonus |-> 800 * ScoreUnit]
    ELSE IF ent > 7950 THEN [flux_type |-> 3, bonus |-> 500 * ScoreUnit]
    ELSE [flux_type |-> 0, bonus |-> 0]

\* the tuple appended to the batch for worker result r
Annotate(r, hist_ent, prev_ent, window_size) ==
    LET fl == Flux(r.ent, prev_ent) IN
    [offset |-> r.offset, length |-> r.length, entropy |-> r.ent,
     r_val |-> r.r, g_val |-> r.g, b_val |-> r.b,
     anom_score |-> AnomBase(r.ent, hist_ent, window_size) + fl.bonus,
     flux_type |-> fl.flux_type]

\* hist_ent.append(ent); if len(hist_ent) > window_size * 2: hist_ent.pop(0)
PushHistNoTrim(hist_ent, ent, window_size) == Append(hist_ent, ent)
PushHist(hist_ent, ent, window_size) ==
    LET h == Append(hist_ent, ent) IN
    IF Len(h) > window_size * 2 THEN Tail(h) ELSE h

(***************************************************************************)
(* DataEngine: one sqlite connection and ONE cursor shared by every call   *)
(***************************************************************************)
\* The cursor holds the rows of the statement executed last that have not
\* been fetched yet; q says which statement that was.
NoCursor == [q |-> "none", rows |-> <<>>]

\* DataEngine(): a fresh temp file, an empty chunks table
NewEngine == [open |-> TRUE, rows |-> <<>>, cursor |-> NoCursor]

\* close(): conn.close(); os.unlink(db_path)
CloseEngine(E) == [E EXCEPT !.open = FALSE]

\* insert_bulk(data_tuples): executemany + commit; ids follow insertion order
InsertBulkFirstOnly(E, data_tuples) ==
    [E EXCEPT !.rows = @ \o Prefix(data_tuples, 1),
              !.cursor = [q |-> "insert", rows |-> <<>>]]
insert_bulk(E, data_tuples) ==
    [E EXCEPT !.rows = @ \o data_tuples,
              !.cursor = [q |-> "insert", rows |-> <<>>]]

\* SELECT ... FROM chunks LIMIT page_size OFFSET page_num * page_size
\* (sqlite: a negative LIMIT is no limit, a negative OFFSET is 0)
PageRows(rows, page_num, page_size) ==
    LET offset == Max(0, page_num * page_size)
        limit == IF page_size < 0 THEN Len(rows) ELSE page_size
    IN  SubSeq(rows, offset + 1, Min(offset + limit, Len(rows)))

\* SELECT COUNT(*) FROM chunks
CountRows(rows) == <<[count |-> Len(rows)]>>

\* SELECT r_val, g_val, b_val FROM chunks ORDER BY id ASC
SpectralRows(rows) ==
    [i \in 1..Len(rows) |->
        [r_val |-> rows[i].r_val, g_val |-> rows[i].g_val, b_val |-> rows[i].b_val]]

\* self.cursor.execute(<statement q>)
Execute(E, q, result) == [E EXCEPT !.cursor = [q |-> q, rows |-> result]]

\* self.cursor.fetchall() / fetchone(): what is left of the cursor afterwards
AfterFetchAll(E) == [E EXCEPT !.cursor.rows = <<>>]
AfterFetchOne(E) == [E EXCEPT !.cursor.rows = IF @ = <<>> THEN <<>> ELSE Tail(@)]

\* round(r[6], 2), in hundredths (ties to even)
Round2(score) ==
    LET u == 10 * ScoreUnit
        q == score \div u
        r == score % u
    IN  IF 2 * r > u \/ (2 * r = u /\ q % 2 = 1) THEN q + 1 ELSE q

\* get_page's return value built from fetched page rows: (chunks, anoms)
PageResult(rows) ==
    [chunks |-> [i \in 1..Len(rows) |->
                    <<rows[i].offset, rows[i].length, rows[i].entropy,
                      rows[i].r_val, rows[i].g_val, rows[i].b_val>>],
     anom |-> [i \in 1..Len(rows) |->
                    <<Round2(rows[i].anom_score), rows[i].flux_type>>]]

\* res[0] of a fetched row, whatever statement produced it
FirstColumn(q, row) ==
    IF q = "count" THEN row.count
    ELSE IF q = "spectral" THEN row.r_val
    ELSE row.offset

(***************************************************************************)
(* The session                                                             *)
(***************************************************************************)
\* requests accepted by the server in one behaviour
MaxRequests == 2
\* records per insert_bulk (2000 in the program)
BatchSize == 2
\* chunksize of executor.map (20 in the program)
MapChunkSize == 1
\* limit of the page the HTML report embeds
RootLimit == 50000
\* default of /data's size parameter
DefaultPageSize == 5000

Handlers == {"h1", "h2"}
Threads == {"main"} \cup Handlers

Paths == {"a.bin", "b.bin", "empty.bin", "dir", "missing"}

\* The file system the session runs on (it does not change).
FS == [p \in Paths |->
          CASE p = "a.bin" -> [kind |-> "file", data |-> <<65, 0, 200, 65>>]
            [] p = "b.bin" -> [kind |-> "file", data |-> <<0, 65>>]
            [] p = "empty.bin" -> [kind |-> "file", data |-> <<>>]
            [] p = "dir" -> [kind |-> "dir", data |-> <<>>]
            [] OTHER -> [kind |-> "none", data |-> <<>>]]

os_path_exists(p) == FS[p].kind # "none"
os_path_isfile(p) == FS[p].kind = "file"

\* the test that guards /load: monolith "exists and isfile", package "exists"
LoadPathOk(im, new_path) ==
    IF im = "mono" THEN os_path_exists(new_path) /\ os_path_isfile(new_path)
    ELSE os_path_exists(new_path)

\* the scanner built from the configuration (main and do_POST)
ScannerOf(conf) == [mode |-> conf.mode, size |-> conf.size, delimiter |-> conf.delimiter]

\* executor.map(_worker_scan, chunk_gen, chunksize): the generator is
\* consumed when the tasks are submitted; result i belongs to task Group(i)
Group(i) == ((i - 1) \div MapChunkSize) + 1
Groups(n) == {Group(i) : i \in 1..n}

\* the results the loop may take next: executor.map yields in input order
ReadyAsCompleted(count, done, n) == {i \in (count + 1)..n : Group(i) \in done}
ReadyNext(count, done, n) == {i \in {count + 1} : i <= n /\ Group(i) \in done}

LocInit ==
    [req |-> "none", new_path |-> "none", page |-> 0, size |-> 0,
     \* Processor.run
     res |-> <<>>, done |-> {}, count |-> 0,
     hist_ent |-> <<>>, prev_ent |-> 0, batch |-> <<>>,
     \* the store call in progress and the response
     eng |-> 0, chunks |-> <<>>, anom |-> <<>>, total |-> 0, status |-> 0,
     \* history, for stating the claims: the store's rows when this /load's
     \* scan began; what this call's own statement selected when it was
     \* executed, and what the call then fetched; the store's record count
     \* when this /data's page was fetched
     pre |-> <<>>, expect |-> NoCursor, got |-> NoCursor, seen |-> 0]

\* status 0: the handler died with an uncaught exception, no complete response
Requests(im) ==
    [req : {"load"}, new_path : Paths, page : {0}, size : {0}]
    \cup [req : {"data"}, new_path : {"none"}, page : {0, 1}, size : {2, DefaultPageSize}]
    \cup [req : {"bmp"}, new_path : {"none"}, page : {0}, size : {0}]
    \cup (IF im = "mono"
          THEN [req : {"root"}, new_path : {"none"}, page : {0}, size : {RootLimit}]
          ELSE {})

FirstPc(req) ==
    CASE req = "load" -> "load_validate"
      [] req = "bmp" -> "bmp_exec"
      [] OTHER -> "page_exec"

\* Which handlers catch their exceptions: the monolith's /load, /data and
\* /download send 500; its "/" and every handler of the package do not.
Catches(im, req) == im = "mono" /\ req \in {"load", "data", "bmp"}

\* An exception leaves thread t's handler.
Raise(t) ==
    /\ pc' = [pc EXCEPT ![t] = IF t = "main" THEN "crashed" ELSE "done"]
    /\ loc' = [loc EXCEPT ![t].status = IF Catches(impl, loc[t].req) THEN 500 ELSE 0]

Configs ==
    {[mode |-> "FIXED", size |-> 1, delimiter |-> 0],
     [mode |-> "FIXED", size |-> 2, delimiter |-> 0],
     [mode |-> "SENTINEL", size |-> 2, delimiter |-> 0]}

ChunkIdle ==
    /\ cfile = <<>>
    /\ cscanner = [mode |-> "FIXED", size |-> 1, delimiter |-> 0]
    /\ gen = GenInit

\* The state when main calls Processor.run for the first time.  Monolith:
\* SERVER_FILE_PATH and SERVER_CONFIG are set, ENGINE is None.  Package: the
\* engine exists, ServerContext is filled in after the scan.
Init ==
    /\ impl \in Impls
    /\ ChunkIdle
    /\ \E c \in Configs :
          config = [mode |-> c.mode, size |-> c.size, delimiter |-> c.delimiter,
                    window |-> IF impl = "mono" THEN 1 ELSE 5]
    /\ file_path = IF impl = "mono" THEN "a.bin" ELSE "none"
    /\ ENGINE = IF impl = "mono" THEN 0 ELSE 1
    /\ engines = IF impl = "mono" THEN <<>> ELSE <<NewEngine>>
    /\ pc = [t \in Threads |->
                IF t = "main" THEN (IF impl = "mono" THEN "run_close" ELSE "run_submit")
                ELSE "idle"]
    /\ loc = [t \in Threads |->
                IF t = "main" THEN [LocInit EXCEPT !.req = "main", !.new_path = "a.bin"]
                ELSE LocInit]
    /\ nreq = 0

\* ------------------------------------------------------------ do_POST /load
Accept(t) ==
    /\ t \in Handlers
    /\ pc["main"] = "serving"
    /\ pc[t] \in {"idle", "done"}
    /\ nreq < MaxRequests
    /\ \E r \in Requests(impl) :
          /\ loc' = [loc EXCEPT ![t] = [LocInit EXCEPT !.req = r.req, !.new_path = r.new_path,
                                                       !.page = r.page, !.size = r.size]]
          /\ pc' = [pc EXCEPT ![t] = FirstPc(r.req)]
    /\ nreq' = nreq + 1
    /\ UNCHANGED <<impl, chunkVars, config, file_path, ENGINE, engines>>

\* if os.path.exists(new_path) [and os.path.isfile(new_path)]: ... else 400
LoadValidate(t) ==
    /\ pc[t] = "load_validate"
    /\ IF LoadPathOk(impl, loc[t].new_path)
       THEN /\ pc' = [pc EXCEPT ![t] = "load_setpath"]
            /\ loc' = loc
       ELSE /\ pc' = [pc EXCEPT ![t] = "done"]
            /\ loc' = [loc EXCEPT ![t].status = 400]
    /\ UNCHANGED <<impl, chunkVars, config, file_path, ENGINE, engines, nreq>>

\* SERVER_FILE_PATH = new_path, then the scanner is built and run is called
LoadSetPath(t) ==
    /\ pc[t] = "load_setpath"
    /\ file_path' = loc[t].new_path
    /\ pc' = [pc EXCEPT ![t] = IF impl = "mono" THEN "run_close" ELSE "run_submit"]
    /\ loc' = [loc EXCEPT ![t].pre = engines[ENGINE].rows]
    /\ UNCHANGED <<impl, chunkVars, config, ENGINE, engines, nreq>>

\* self.send_response(303)
LoadRespond(t) ==
    /\ pc[t] = "load_respond"
    /\ pc' = [pc EXCEPT ![t] = "done"]
    /\ loc' = [loc EXCEPT ![t].status = 303]
    /\ UNCHANGED <<impl, chunkVars, config, file_path, ENGINE, engines, nreq>>

\* ------------------------------------------------------------ Processor.run
\* monolith: if ENGINE: ENGINE.close()
RunClose(t) ==
    /\ pc[t] = "run_close"
    /\ engines' = IF ENGINE = 0 THEN engines
                  ELSE [engines EXCEPT ![ENGINE] = CloseEngine(@)]
    /\ pc' = [pc EXCEPT ![t] = "run_new"]
    /\ UNCHANGED <<impl, chunkVars, config, file_path, ENGINE, loc, nreq>>

\* monolith: ENGINE = DataEngine()
RunNew(t) ==
    /\ pc[t] = "run_new"
    /\ engines' = Append(engines, NewEngine)
    /\ ENGINE' = Len(engines) + 1
    /\ pc' = [pc EXCEPT ![t] = "run_submit"]
    /\ UNCHANGED <<impl, chunkVars, config, file_path, loc, nreq>>

\* os.path.getsize(target_file); executor.map(_worker_scan, chunk_gen, ...):
\* the file is opened and chunked, one task per group of chunks is queued
RunSubmit(t) ==
    /\ pc[t] = "run_submit"
    /\ \/ /\ FS[loc[t].new_path].kind = "file"
          /\ LET chunks == yield_raw_chunks(FS[loc[t].new_path].data, ScannerOf(config), impl) IN
             loc' = [loc EXCEPT ![t].res = [i \in 1..Len(chunks) |-> WorkerScan(chunks[i])],
                                ![t].done = {}, ![t].count = 0, ![t].hist_ent = <<>>,
                                ![t].prev_ent = 0, ![t].batch = <<>>]
          /\ pc' = [pc EXCEPT ![t] = "run_consume"]
       \/ /\ FS[loc[t].new_path].kind # "file"
          /\ Raise(t)
    /\ UNCHANGED <<impl, chunkVars, config, file_path, ENGINE, engines, nreq>>

\* a pool worker finishes task g
WorkerFinish(t, g) ==
    /\ pc[t] = "run_consume"
    /\ g \in Groups(Len(loc[t].res)) \ loc[t].done
    /\ loc' = [loc EXCEPT ![t].done = @ \cup {g}]
    /\ UNCHANGED <<impl, chunkVars, config, file_path, ENGINE, engines, pc, nreq>>

\* one iteration of "for res in executor.map(...)": annotate, append to the
\* batch, flush the batch when it holds BatchSize records
Consume(t) ==
    /\ pc[t] = "run_consume"
    /\ \E i \in ReadyNext(loc[t].count, loc[t].done, Len(loc[t].res)) :
          LET l == loc[t]
              rec == Annotate(l.res[i], l.hist_ent, l.prev_ent, config.window)
              batch == Append(l.batch, rec)
              stepped == [l EXCEPT !.prev_ent = l.res[i].ent,
                                   !.hist_ent = PushHist(@, l.res[i].ent, config.window),
                                   !.count = @ + 1]
          IN  \/ /\ Len(batch) < BatchSize
                 /\ loc' = [loc EXCEPT ![t] = [stepped EXCEPT !.batch = batch]]
                 /\ UNCHANGED <<pc, engines>>
              \/ /\ Len(batch) >= BatchSize
                 /\ engines[ENGINE].open
                 /\ engines' = [engines EXCEPT ![ENGINE] = insert_bulk(@, batch)]
                 /\ loc' = [loc EXCEPT ![t] = [stepped EXCEPT !.batch = <<>>]]
                 /\ UNCHANGED pc
              \/ /\ Len(batch) >= BatchSize
                 /\ ~engines[ENGINE].open
                 /\ Raise(t)
                 /\ UNCHANGED engines
    /\ UNCHANGED <<impl, chunkVars, config, file_path, ENGINE, nreq>>

\* the results are exhausted: if batch: insert_bulk(batch); run returns
RunFinal(t) ==
    /\ pc[t] = "run_consume"
    /\ loc[t].count = Len(loc[t].res)
    /\ \/ /\ loc[t].batch = <<>>
          /\ pc' = [pc EXCEPT ![t] = IF t = "main" THEN "main_serve" ELSE "load_respond"]
          /\ UNCHANGED <<engines, loc>>
       \/ /\ loc[t].batch # <<>>
          /\ engines[ENGINE].open
          /\ engines' = [engines EXCEPT ![ENGINE] = insert_bulk(@, loc[t].batch)]
          /\ loc' = [loc EXCEPT ![t].batch = <<>>]
          /\ pc' = [pc EXCEPT ![t] = IF t = "main" THEN "main_serve" ELSE "load_respond"]
       \/ /\ loc[t].batch # <<>>
          /\ ~engines[ENGINE].open
          /\ Raise(t)
          /\ UNCHANGED engines
    /\ UNCHANGED <<impl, chunkVars, config, file_path, ENGINE, nreq>>

\* main after the first scan: (package: fill ServerContext,) serve_forever
MainServe ==
    /\ pc["main"] = "main_serve"
    /\ file_path' = loc["main"].new_path
    /\ pc' = [pc EXCEPT !["main"] = "serving"]
    /\ UNCHANGED <<impl, chunkVars, config, ENGINE, engines, loc, nreq>>

\* ------------------------------------------- do_GET /data, / and /download
\* A store call starts: the handler reads the store handle and executes its
\* statement on the engine's cursor.
StartCall(t, q, next) ==
    IF engines[ENGINE].open
    THEN LET result == CASE q = "page" -> PageRows(engines[ENGINE].rows, loc[t].page, loc[t].size)
                         [] q = "count" -> CountRows(engines[ENGINE].rows)
                         [] OTHER -> SpectralRows(engines[ENGINE].rows)
         IN  /\ engines' = [engines EXCEPT ![ENGINE] = Execute(@, q, result)]
             /\ loc' = [loc EXCEPT ![t].eng = ENGINE,
                                   ![t].expect = [q |-> q, rows |-> result],
                                   ![t].got = NoCursor]
             /\ pc' = [pc EXCEPT ![t] = next]
    ELSE /\ Raise(t)
         /\ UNCHANGED engines

\* get_page: self.cursor.execute(SELECT ... LIMIT ? OFFSET ?)
PageExec(t) ==
    /\ pc[t] = "page_exec"
    /\ StartCall(t, "page", "page_fetch")
    /\ UNCHANGED <<impl, chunkVars, config, file_path, ENGINE, nreq>>

\* get_page: rows = self.cursor.fetchall(); each row is split into r[0..7]
PageFetch(t) ==
    /\ pc[t] = "page_fetch"
    /\ LET e == loc[t].eng
           cur == engines[e].cursor
       IN  \/ /\ engines[e].open
              /\ cur.rows = <<>> \/ cur.q = "page"
              /\ engines' = [engines EXCEPT ![e] = AfterFetchAll(@)]
              /\ loc' = [loc EXCEPT ![t].chunks = PageResult(cur.rows).chunks,
                                    ![t].anom = PageResult(cur.rows).anom,
                                    ![t].got = cur,
                                    ![t].seen = Len(engines[e].rows)]
              /\ pc' = [pc EXCEPT ![t] = "count_exec"]
           \/ /\ engines[e].open
              /\ cur.rows # <<>> /\ cur.q # "page"
              /\ engines' = [engines EXCEPT ![e] = AfterFetchAll(@)]
              /\ pc' = [pc EXCEPT ![t] = "done"]
              /\ loc' = [loc EXCEPT ![t].status = IF Catches(impl, loc[t].req) THEN 500 ELSE 0,
                                    ![t].got = cur]
           \/ /\ ~engines[e].open
              /\ Raise(t)
              /\ UNCHANGED engines
    /\ UNCHANGED <<impl, chunkVars, config, file_path, ENGINE, nreq>>

\* get_total_count: self.cursor.execute(SELECT COUNT(*))
CountExec(t) ==
    /\ pc[t] = "count_exec"
    /\ StartCall(t, "count", "count_fetch")
    /\ UNCHANGED <<impl, chunkVars, config, file_path, ENGINE, nreq>>

\* get_total_count: res = self.cursor.fetchone(); res[0] if res else 0;
\* then the response is sent
CountFetch(t) ==
    /\ pc[t] = "count_fetch"
    /\ LET e == loc[t].eng
           cur == engines[e].cursor
       IN  \/ /\ engines[e].open
              /\ engines' = [engines EXCEPT ![e] = AfterFetchOne(@)]
              /\ loc' = [loc EXCEPT ![t].total = IF cur.rows = <<>> THEN 0
                                                 ELSE FirstColumn(cur.q, Head(cur.rows)),
                                    ![t].got = [q |-> cur.q, rows |-> Prefix(cur.rows, 1)],
                                    ![t].status = 200]
              /\ pc' = [pc EXCEPT ![t] = "done"]
           \/ /\ ~engines[e].open
              /\ Raise(t)
              /\ UNCHANGED engines
    /\ UNCHANGED <<impl, chunkVars, config, file_path, ENGINE, nreq>>

\* get_all_spectral_data: self.cursor.execute(SELECT r_val, g_val, b_val ...)
BmpExec(t) ==
    /\ pc[t] = "bmp_exec"
    /\ StartCall(t, "spectral", "bmp_fetch")
    /\ UNCHANGED <<impl, chunkVars, config, file_path, ENGINE, nreq>>

\* get_all_spectral_data: return self.cursor.fetchall(); create_bmp unpacks
\* every row as (r, g, b); then the response is sent
BmpFetch(t) ==
    /\ pc[t] = "bmp_fetch"
    /\ LET e == loc[t].eng
           cur == engines[e].cursor
       IN  \/ /\ engines[e].open
              /\ cur.rows = <<>> \/ cur.q = "spectral"
              /\ engines' = [engines EXCEPT ![e] = AfterFetchAll(@)]
              /\ loc' = [loc EXCEPT ![t].chunks = cur.rows, ![t].got = cur, ![t].status = 200]
              /\ pc' = [pc EXCEPT ![t] = "done"]
           \/ /\ engines[e].open
              /\ cur.rows # <<>> /\ cur.q # "spectral"
              /\ engines' = [engines EXCEPT ![e] = AfterFetchAll(@)]
              /\ pc' = [pc EXCEPT ![t] = "done"]
              /\ loc' = [loc EXCEPT ![t].status = IF Catches(impl, loc[t].req) THEN 500 ELSE 0,
                                    ![t].got = cur]
           \/ /\ ~engines[e].open
              /\ Raise(t)
              /\ UNCHANGED engines
    /\ UNCHANGED <<impl, chunkVars, config, file_path, ENGINE, nreq>>

Next ==
    \/ MainServe
    \/ \E t \in Threads : RunClose(t)
    \/ \E t \in Threads : RunNew(t)
    \/ \E t \in Threads : RunSubmit(t)
    \/ \E t \in Threads : \E g \in 1..Cardinality(Groups(Len(loc[t].res))) : WorkerFinish(t, g)
    \/ \E t \in Threads : Consume(t)
    \/ \E t \in Threads : RunFinal(t)
    \/ \E t \in Handlers : Accept(t)
    \/ \E t \in Handlers : LoadValidate(t)
    \/ \E t \in Handlers : LoadSetPath(t)
    \/ \E t \in Handlers : LoadRespond(t)
    \/ \E t \in Handlers : PageExec(t)
    \/ \E t \in Handlers : PageFetch(t)
    \/ \E t \in Handlers : CountExec(t)
    \/ \E t \in Handlers : CountFetch(t)
    \/ \E t \in Handlers : BmpExec(t)
    \/ \E t \in Handlers : BmpFetch(t)

Spec == Init /\ [][Next]_vars

(***************************************************************************)
(* Claims on the session                                                   *)
(***************************************************************************)
\* the positions of a handler inside Processor.run
RunPcs == {"run_close", "run_new", "run_submit", "run_consume"}

\* the chunks the configured chunker emits on its own for the file at path
StandaloneChunks(path) == yield_raw_chunks(FS[path].data, ScannerOf(config), impl)

\* C4: when a scan has returned (main's first scan, or the scan of a /load
\* that is about to answer 303), total() is the number of chunks the
\* configured chunker emits on its own for the scanned file.
C4_TotalEqualsChunkCount ==
    \A t \in Threads :
        pc[t] \in {"main_serve", "load_respond"} =>
            /\ engines[ENGINE].open
            /\ Len(engines[ENGINE].rows) = Len(StandaloneChunks(loc[t].new_path))

\* The driver of thread t has taken the first count results, in order: the
\* batch holds the records of the last positions taken, hist_ent the last
\* (up to 2*window) entropies in positional order, prev_ent the last one.
DriverInOrder(t) ==
    LET l == loc[t]
        k == l.count
        b == Len(l.batch)
        h == Min(k, 2 * config.window)
    IN  /\ b <= k /\ k <= Len(l.res)
        /\ \A j \in 1..b : /\ l.batch[j].offset = l.res[k - b + j].offset
                           /\ l.batch[j].entropy = l.res[k - b + j].ent
        /\ l.hist_ent = [j \in 1..h |-> l.res[k - h + j].ent]
        /\ l.prev_ent = IF k = 0 THEN 0 ELSE l.res[k].ent

\* In this step thread t appended to engine e exactly the records of the
\* positions that end at its count, in order, offsets strictly increasing.
AppendedInOrder(t, e) ==
    LET old == engines[e].rows
        new == engines'[e].rows
        m == Len(new) - Len(old)
        k == loc'[t].count
    IN  /\ m >= 1 /\ m <= k
        /\ SubSeq(new, 1, Len(old)) = old
        /\ \A j \in 1..m : /\ new[Len(old) + j].offset = loc[t].res[k - m + j].offset
                           /\ new[Len(old) + j].entropy = loc[t].res[k - m + j].ent
        /\ \A j \in 1..(m - 1) : new[Len(old) + j].offset < new[Len(old) + j + 1].offset

\* C5: whatever order the workers finish in, the driver takes the results
\* in emission order: the detector's state is that of the positional
\* stream, and every insert appends the scan's next records in strictly
\* increasing offset order.
C5_ResultsConsumedInOrder ==
    /\ [](\A t \in Threads : pc[t] = "run_consume" => DriverInOrder(t))
    /\ [][\A t \in Threads : \A e \in DOMAIN engines :
             (loc'[t] # loc[t] /\ engines'[e].rows # engines[e].rows)
                 => AppendedInOrder(t, e)]_vars

\* C5 witness: a driver that has taken and persisted the first two records
\* and waits for the third while a worker has already finished the fourth.
C5_Witness ==
    \E t \in Threads :
        /\ pc[t] = "run_consume"
        /\ loc[t].count = 2
        /\ 3 \notin {i \in 1..Len(loc[t].res) : Group(i) \in loc[t].done}
        /\ 4 \in {i \in 1..Len(loc[t].res) : Group(i) \in loc[t].done}
        /\ Len(engines[ENGINE].rows) >= 2

\* a stored row without its anomaly annotation: the worker's record
WorkerPart(row) ==
    [offset |-> row.offset, length |-> row.length, ent |-> row.entropy,
     r |-> row.r_val, g |-> row.g_val, b |-> row.b_val]

\* C6: when the scan of a /load of file F has returned, the store holds
\* exactly the records of the scan of F; no record of the file scanned
\* before remains.
C6_LoadReplacesStore ==
    \A t \in Handlers :
        pc[t] = "load_respond" =>
            /\ engines[ENGINE].open
            /\ [i \in 1..Len(engines[ENGINE].rows) |-> WorkerPart(engines[ENGINE].rows[i])]
                   = [i \in 1..Len(StandaloneChunks(loc[t].new_path)) |->
                         WorkerScan(StandaloneChunks(loc[t].new_path)[i])]

\* C7: at most one thread is inside Processor.run at any time.
C7_OneScanAtATime ==
    Cardinality({t \in Threads : pc[t] \in RunPcs}) <= 1

\* the fetch steps of the read handlers, and the steps that start a call
FetchPcs == {"page_fetch", "count_fetch", "bmp_fetch"}
ReadPcs == FetchPcs \cup {"page_exec", "count_exec", "bmp_exec"}

\* C8: a step of a read handler r taken while the scan of a /load by t is
\* in progress does not fail, and what it fetches is the pre-scan snapshot:
\* the page, the count or the spectral rows of the store as it was when the
\* scan began.
C8_ReadersSeePreScanSnapshot ==
    [][\A t \in Handlers : \A r \in Handlers \ {t} :
          (/\ loc[t].req = "load" /\ pc[t] \in RunPcs
           /\ pc[r] \in ReadPcs /\ pc'[r] # pc[r])
          => /\ ~(pc'[r] = "done" /\ loc'[r].status # 200)
             /\ pc[r] = "page_fetch" =>
                    loc'[r].chunks =
                        PageResult(PageRows(loc[t].pre, loc[r].page, loc[r].size)).chunks
             /\ pc[r] = "count_fetch" => loc'[r].total = Len(loc[t].pre)
             /\ pc[r] = "bmp_fetch" => loc'[r].chunks = SpectralRows(loc[t].pre)]_vars

\* C9: every store call returns what its own statement selected: what a
\* call fetched is what its statement produced when it was executed.
C9_CallsReturnOwnRows ==
    \A t \in Handlers : loc[t].got # NoCursor => loc[t].got = loc[t].expect

\* C10: once the server is up, file_path changes only in the step of a /load
\* handler whose scan has completed (validate, scan, then update); config
\* never changes and the store handle changes only inside a /load.
C10_PathUpdatedAfterScan ==
    [][pc["main"] = "serving" =>
          /\ file_path' # file_path =>
                 \E t \in Handlers : /\ loc[t].req = "load"
                                     /\ pc[t] = "load_respond" /\ pc'[t] # pc[t]
                                     /\ file_path' = loc[t].new_path
          /\ config' = config
          /\ ENGINE' # ENGINE =>
                 \E t \in Handlers : loc[t].req = "load" /\ pc'[t] # pc[t]]_vars

\* the positions of a /load handler after its path test has passed
PastValidation == RunPcs \cup {"load_setpath", "load_respond"}

\* C11: a /load whose filepath names nothing or something that is not a
\* regular file never gets past the path test (so it neither changes
\* file_path nor starts a scan nor touches the store) and ends with 400.
C11_BadPathRejected ==
    \A t \in Handlers :
        (loc[t].req = "load" /\ ~os_path_isfile(loc[t].new_path)) =>
            /\ pc[t] \notin PastValidation
            /\ pc[t] = "done" => loc[t].status = 400

\* C12: a /load always ends with a complete response: 303 after the scan,
\* 400 for a rejected path, 500 when the scan failed; and the server keeps
\* serving once it has started.
C12_ScanFailureIs500 ==
    /\ \A t \in Handlers :
          (loc[t].req = "load" /\ pc[t] = "done") => loc[t].status \in {303, 400, 500}
    /\ \A t \in Handlers : pc[t] # "crashed"

\* C17: whenever no scan is running, the store's records, taken in id order
\* (ids are the positions 1..total() of the rows, assigned by insertion),
\* are in chunk emission order: offsets strictly increase with the id.
C17_IdOrderIsOffsetOrder ==
    (ENGINE # 0 /\ \A t \in Threads : pc[t] \notin RunPcs) =>
        \A i, j \in 1..Len(engines[ENGINE].rows) :
            i < j => engines[ENGINE].rows[i].offset < engines[ENGINE].rows[j].offset

\* the records with id in [page_num*page_size + 1, (page_num + 1)*page_size]
IdRange(rows, page_num, page_size) ==
    [i \in 1..Max(0, Min(page_size, Len(rows) - page_num * page_size)) |->
        rows[page_num * page_size + i]]

\* C18: a get_page(page_num, page_size) that returns, on a store no /load
\* is changing, returns exactly the records with id in
\* [page_num*page_size + 1, (page_num + 1)*page_size] in id order, the
\* anomaly rows aligned with the chunk rows.
C18_PageIsIdRange ==
    [][\A t \in Handlers :
          (/\ pc[t] = "page_fetch" /\ pc'[t] = "count_exec"
           /\ \A u \in Handlers : loc[u].req # "load")
          => LET want == PageResult(IdRange(engines[loc[t].eng].rows,
                                            loc[t].page, loc[t].size))
             IN  /\ loc'[t].chunks = want.chunks
                 /\ loc'[t].anom = want.anom]_vars

\* paging through get_page with a positive page size until the page is empty
RECURSIVE PagedThrough(_, _, _)
PagedThrough(rows, page_num, page_size) ==
    IF PageRows(rows, page_num, page_size) = <<>> THEN <<>>
    ELSE PageRows(rows, page_num, page_size) \o PagedThrough(rows, page_num + 1, page_size)

\* C23: the store is never seen partially updated: in every state total()
\* of each store equals the number of records paging through get_page
\* returns, and the total of a /data response equals the record count its
\* store had when the response's page was read.
C23_TotalMatchesPageRead ==
    [][/\ \A e \in 1..Len(engines) :
             CountRows(engines[e].rows)[1].count = Len(PagedThrough(engines[e].rows, 0, 2))
       /\ \A t \in Handlers :
             (/\ loc[t].req = "data"
              /\ pc[t] = "count_fetch" /\ pc'[t] = "done" /\ loc'[t].status = 200)
             => loc'[t].total = loc[t].seen]_vars

(***************************************************************************)
(* SpecChunk                                                               *)
(***************************************************************************)
Scanners ==
    [mode : {"FIXED"}, size : 1..MaxSize, delimiter : {0}]
    \cup [mode : {"SENTINEL"}, size : 1..MaxSize, delimiter : Bytes]

SrvIdle ==
    /\ config = [mode |-> "FIXED", size |-> 1, delimiter |-> 0, window |-> 1]
    /\ file_path = "none"
    /\ ENGINE = 0
    /\ engines = <<>>
    /\ pc = <<>>
    /\ loc = <<>>
    /\ nreq = 0

InitChunk ==
    /\ impl \in Impls
    /\ cfile \in BSeq(Bytes, MaxFileLen)
    /\ cscanner \in Scanners
    /\ gen = GenInit
    /\ SrvIdle

FixedRead ==
    /\ cscanner.mode = "FIXED"
    /\ gen.pc = "read"
    /\ gen' = FixedStep(gen, cfile, cscanner.size)
    /\ UNCHANGED <<impl, cfile, cscanner, srvVars>>

SentinelRead ==
    /\ cscanner.mode = "SENTINEL"
    /\ gen.pc = "read"
    /\ gen' = SentinelReadStep(gen, cfile)
    /\ UNCHANGED <<impl, cfile, cscanner, srvVars>>

SentinelCut ==
    /\ cscanner.mode = "SENTINEL"
    /\ gen.pc = "cut"
    /\ gen' = SentinelCutStep(gen, impl, cscanner.delimiter, cscanner.size)
    /\ UNCHANGED <<impl, cfile, cscanner, srvVars>>

NextChunk == FixedRead \/ SentinelRead \/ SentinelCut

SpecChunk == InitChunk /\ [][NextChunk]_vars

(***************************************************************************)
(* Claims on the chunkers                                                  *)
(***************************************************************************)
RECURSIVE Flatten(_)
Flatten(out) == IF out = <<>> THEN <<>> ELSE Head(out).data \o Flatten(Tail(out))

\* C1: when the generator is exhausted, the bodies of the chunks it yielded,
\* concatenated in emission order, are the file's bytes: nothing dropped,
\* duplicated or reordered (both modes, every block size and delimiter).
C1_ConcatReproducesFile ==
    gen.pc = "done" => Flatten(gen.out) = cfile

\* C1 witness: a SENTINEL run over a file that made one chunk end on the
\* delimiter and another end by max_size, finished.
C1_Witness ==
    /\ gen.pc = "done"
    /\ cscanner.mode = "SENTINEL"
    /\ Len(gen.out) >= 3
    /\ \E i \in 1..Len(gen.out) :
          /\ Len(gen.out[i].data) < cscanner.size
          /\ gen.out[i].data[Len(gen.out[i].data)] = cscanner.delimiter
    /\ \E i \in 1..Len(gen.out) :
          /\ Len(gen.out[i].data) = cscanner.size
          /\ Find(gen.out[i].data, cscanner.delimiter) = -1

\* Whether chunk i is the last chunk of the file: it ends at end of file.
IsFinalChunk(i) == gen.out[i].offset + Len(gen.out[i].data) = Len(cfile)

\* C2: in SENTINEL mode every chunk yielded has length <= max_size, and a
\* chunk shorter than max_size that is not the file's last chunk ends with
\* the delimiter byte.
C2_SentinelChunkShape ==
    cscanner.mode = "SENTINEL" =>
        \A i \in 1..Len(gen.out) :
            LET data == gen.out[i].data IN
            /\ Len(data) <= cscanner.size
            /\ (Len(data) < cscanner.size /\ ~IsFinalChunk(i))
                   => (data # <<>> /\ data[Len(data)] = cscanner.delimiter)

\* C2 witness: a finished SENTINEL run in which a delimiter lay beyond
\* max_size (a full chunk holding no delimiter is followed by a short chunk
\* that ends on it) and the last chunk is short and has no delimiter.
C2_Witness ==
    /\ gen.pc = "done"
    /\ cscanner.mode = "SENTINEL"
    /\ \E i \in 1..(Len(gen.out) - 1) :
          /\ Len(gen.out[i].data) = cscanner.size
          /\ Find(gen.out[i].data, cscanner.delimiter) = -1
          /\ Len(gen.out[i + 1].data) < cscanner.size
          /\ gen.out[i + 1].data[Len(gen.out[i + 1].data)] = cscanner.delimiter
    /\ LET last == gen.out[Len(gen.out)].data IN
          Len(last) < cscanner.size /\ Find(last, cscanner.delimiter) = -1

\* The worker records of the chunks yielded so far, in emission order.
ChunkRecords == [i \in 1..Len(gen.out) |-> WorkerScan(gen.out[i])]

\* C3: the records of one scan start at offset 0 and each record ends where
\* the next begins: offset_i + length_i = offset_{i+1}.
C3_ContiguousCover ==
    LET recs == ChunkRecords IN
    /\ Len(recs) >= 1 => recs[1].offset = 0
    /\ \A i \in 1..(Len(recs) - 1) : recs[i].offset + recs[i].length = recs[i + 1].offset
    /\ gen.pc = "done" /\ Len(recs) >= 1
           => recs[Len(recs)].offset + recs[Len(recs)].length = Len(cfile)

\* C3 witness: a finished run with at least three records of different lengths.
C3_Witness ==
    /\ gen.pc = "done"
    /\ Len(gen.out) >= 3
    /\ \E i, j \in 1..Len(gen.out) : Len(gen.out[i].data) # Len(gen.out[j].data)

\* C25: every record of a scan has 1 <= length <= block_size: no chunk is
\* empty (the worker's zero-length branch is not taken), and in FIXED mode
\* every chunk but the last has length exactly block_size.
C25_RecordLengths ==
    \A i \in 1..Len(gen.out) :
        /\ gen.out[i].data # <<>>
        /\ 1 <= ChunkRecords[i].length
        /\ ChunkRecords[i].length <= cscanner.size
        /\ (cscanner.mode = "FIXED" /\ i < Len(gen.out))
               => ChunkRecords[i].length = cscanner.size

\* C25 witness: a finished FIXED scan of several chunks whose last chunk is
\* shorter than block_size.
C25_Witness ==
    /\ gen.pc = "done"
    /\ cscanner.mode = "FIXED"
    /\ Len(gen.out) >= 2
    /\ ChunkRecords[Len(gen.out)].length < cscanner.size

\* The chunks of the bytes of f from position pos on, cut on the whole file
\* at once: min(k + 1, max_size, remaining) bytes each, k the index of the
\* first delimiter in the unconsumed bytes.
RECURSIVE WholeFileChunks(_, _, _, _)
WholeFileChunks(f, pos, delimiter, max_size) ==
    IF pos >= Len(f) THEN <<>>
    ELSE LET rest == SubSeq(f, pos + 1, Len(f))
             k == Find(rest, delimiter)
             cut == IF k = -1 THEN Min(max_size, Len(rest))
                    ELSE Min(k + 1, Min(max_size, Len(rest)))
         IN  <<[offset |-> pos, data |-> SubSeq(rest, 1, cut)]>>
                 \o WholeFileChunks(f, pos + cut, delimiter, max_size)

\* C35: the chunks a SENTINEL generator yields, fed slab by slab, are the
\* chunks cut on the whole file at once: those yielded so far are the first
\* ones of that sequence and, when the generator is done, all of them.  So
\* a chunk whose first delimiter is at index max_size - 1 is a full chunk
\* ending on it, and a delimiter at index max_size is a chunk of its own.
C35_SlabIndependent ==
    cscanner.mode = "SENTINEL" =>
        LET want == WholeFileChunks(cfile, 0, cscanner.delimiter, cscanner.size)
            M == cscanner.size
        IN  /\ Len(gen.out) <= Len(want)
            /\ gen.out = SubSeq(want, 1, Len(gen.out))
            /\ gen.pc = "done" => gen.out = want
            /\ \A i \in 1..Len(gen.out) :
                  LET o == gen.out[i].offset
                      k == Find(SubSeq(cfile, o + 1, Len(cfile)), cscanner.delimiter)
                  IN  /\ k = M - 1 => Len(gen.out[i].data) = M
                      /\ (k = M /\ gen.pc = "done") =>
                            /\ Len(gen.out[i].data) = M
                            /\ gen.out[i + 1].data = <<cscanner.delimiter>>

\* C35 witness: a finished SENTINEL run with max_size above the slab size
\* in which a delimiter at index max_size became a 1-byte chunk.
C35_Witness ==
    /\ gen.pc = "done"
    /\ cscanner.mode = "SENTINEL"
    /\ cscanner.size > SlabSize
    /\ \E i \in 1..(Len(gen.out) - 1) :
          /\ Len(gen.out[i].data) = cscanner.size
          /\ Find(gen.out[i].data, cscanner.delimiter) = -1
          /\ gen.out[i + 1].data = <<cscanner.delimiter>>

\* SpecChunk with the generator always resumed by its consumer: the scan's
\* executor.map drains the generator.
SpecChunkFair == SpecChunk /\ WF_vars(NextChunk)

\* C34: for block_size / max_size >= 1 both chunkers terminate on every
\* file.  FIXED stops exactly at the first empty read and otherwise moves
\* on in the file; every iteration of the SENTINEL inner loop shortens the
\* buffer or breaks to read more input; the SENTINEL outer loop stops
\* exactly when the input is exhausted and the buffer is empty.
C34_ChunkersTerminate ==
    /\ <>(gen.pc = "done")
    /\ [][/\ (cscanner.mode = "FIXED" /\ gen.pc = "read") =>
               (IF ReadBytes(cfile, gen.fpos, cscanner.size) = <<>>
                THEN gen'.pc = "done"
                ELSE gen'.pc = "read" /\ gen'.fpos > gen.fpos)
          /\ (cscanner.mode = "SENTINEL" /\ gen.pc = "cut" /\ gen.buffer # <<>>) =>
               ((Len(gen'.buffer) < Len(gen.buffer) /\ gen'.pc = "cut")
                \/ (gen'.buffer = gen.buffer /\ gen'.pc = "read"))
          /\ (cscanner.mode = "SENTINEL" /\ gen.pc = "read") =>
               (gen'.pc = "done" <=> (gen.fpos >= Len(cfile) /\ gen.buffer = <<>>))]_vars

\* C34 witness: a SENTINEL generator finished after its inner loop had
\* broken off to read more input and after several slabs.
C34_Witness ==
    /\ gen.pc = "done"
    /\ cscanner.mode = "SENTINEL"
    /\ Len(cfile) > 2 * SlabSize
    /\ Len(gen.out) < Len(cfile)
    /\ \E i \in 1..Len(gen.out) : Len(gen.out[i].data) > SlabSize

(***************************************************************************)
(* SpecScan: the result loop of Processor.run over every short stream of   *)
(* worker results                                                          *)
(***************************************************************************)
\* longest stream of worker results
MaxStream == 4
\* window_size ranges over 1..MaxWindow
MaxWindow == 2

\* The entropies a worker may report, in thousandths of a bit: values on
\* both sides of the thresholds 3.0, 6.0 and 7.95, with differences below,
\* at and above 1.5.
EntValues == {0, 2900, 4600, 6100, 7960}

\* The scan that leaves the whole stream in the store, as a function: the
\* loop body applied to the entropies in order, hist_ent and prev_ent
\* carried along; the sequence of (anom_score, flux_type) it produces.
RECURSIVE ScanLoop(_, _, _, _, _)
ScanLoop(ents, i, hist_ent, prev_ent, window_size) ==
    IF i > Len(ents) THEN <<>>
    ELSE LET r == [offset |-> 0, length |-> 1, ent |-> ents[i], r |-> 0, g |-> 0, b |-> 0]
             rec == Annotate(r, hist_ent, prev_ent, window_size)
         IN  <<[anom_score |-> rec.anom_score, flux_type |-> rec.flux_type]>>
                 \o ScanLoop(ents, i + 1, PushHist(hist_ent, ents[i], window_size),
                             ents[i], window_size)

ScanAnnotations(ents, window_size) == ScanLoop(ents, 1, <<>>, 0, window_size)

\* Processor.run has submitted the chunks of some file to the pool: the
\* worker results are any stream of records with entropies in EntValues.
InitScan ==
    /\ impl \in Impls
    /\ ChunkIdle
    /\ \E w \in 1..MaxWindow :
          config = [mode |-> "FIXED", size |-> 1, delimiter |-> 0, window |-> w]
    /\ file_path = "a.bin"
    /\ ENGINE = 1
    /\ engines = <<NewEngine>>
    /\ pc = [t \in Threads |-> IF t = "main" THEN "run_consume" ELSE "idle"]
    /\ \E ents \in BSeq(EntValues, MaxStream) :
          loc = [t \in Threads |->
                    IF t = "main"
                    THEN [LocInit EXCEPT
                              !.req = "main", !.new_path = "a.bin",
                              !.res = [i \in 1..Len(ents) |->
                                          [offset |-> i - 1, length |-> 1, ent |-> ents[i],
                                           r |-> 0, g |-> 0, b |-> 0]]]
                    ELSE LocInit]
    /\ nreq = 0

NextScan ==
    \/ \E g \in 1..MaxStream : WorkerFinish("main", g)
    \/ Consume("main")
    \/ RunFinal("main")

SpecScan == InitScan /\ [][NextScan]_vars

(***************************************************************************)
(* Claims on the detector                                                  *)
(***************************************************************************)
\* the records the scan has produced so far, in the order produced
Produced == engines[ENGINE].rows \o loc["main"].batch

\* the entropy of record k of the stream, and of the record before it
EntOf(k) == loc["main"].res[k].ent
PrevEntOf(k) == IF k = 1 THEN 0 ELSE loc["main"].res[k - 1].ent

\* the three flux rules for record k
SpikeRule(k) == EntOf(k) - PrevEntOf(k) > 1500 /\ EntOf(k) > 6000
DropRule(k) == EntOf(k) - PrevEntOf(k) < -1500 /\ EntOf(k) < 3000
SustainedRule(k) == EntOf(k) > 7950

\* C13: every record's flux_type is decided by the first rule that fires,
\* in the order spike (1), drop (2), sustained-high (3), and is 0 exactly
\* when none fires.
C13_FluxFirstMatch ==
    \A k \in 1..Len(Produced) :
        LET ft == Produced[k].flux_type IN
        /\ SpikeRule(k) => ft = 1
        /\ (~SpikeRule(k) /\ DropRule(k)) => ft = 2
        /\ (~SpikeRule(k) /\ ~DropRule(k) /\ SustainedRule(k)) => ft = 3
        /\ (ft = 0) <=> ~(SpikeRule(k) \/ DropRule(k) \/ SustainedRule(k))

\* C13 witness: a stored stream with a record where the spike and the
\* sustained rule both fire (classified 1), a drop and a sustained-high.
C13_Witness ==
    /\ pc["main"] = "main_serve"
    /\ \E k \in 1..Len(Produced) :
          SpikeRule(k) /\ SustainedRule(k) /\ Produced[k].flux_type = 1
    /\ \E k \in 1..Len(Produced) : Produced[k].flux_type = 2
    /\ \E k \in 1..Len(Produced) : Produced[k].flux_type = 3

\* the bonus the flux rule of a record added to its score
BonusOf(rec) ==
    IF rec.flux_type \in {1, 2} THEN 800 * ScoreUnit
    ELSE IF rec.flux_type = 3 THEN 500 * ScoreUnit
    ELSE 0

\* min(1.0, |H - avg| / 2.0) for record k, avg over the n records before it
ClampedDeviation(k, n) ==
    LET sum == SeqSum([j \in 1..n |-> EntOf(k - n - 1 + j)])
        dev == Abs(EntOf(k) * n - sum) * (ScoreUnit \div (2 * n))
    IN  IF dev > 1000 * ScoreUnit THEN 1000 * ScoreUnit ELSE dev

\* C14: the base score of record k is 0 when fewer than window records
\* precede it, otherwise the clamped half deviation from the mean of the
\* last min(k-1, 2*window) entropies; between two records the history holds
\* at most 2*window entropies.
C14_BaseScoreOverWindow ==
    /\ \A k \in 1..Len(Produced) :
          Produced[k].anom_score - BonusOf(Produced[k]) =
              IF k - 1 < config.window THEN 0
              ELSE ClampedDeviation(k, Min(k - 1, 2 * config.window))
    /\ Len(loc["main"].hist_ent) <= 2 * config.window

\* C14 witness: a finished scan longer than 2*window + 1 whose last record
\* has a base score strictly between 0 and 1, and whose first record differs
\* from the last (so the dropped entropy would have changed the mean).
C14_Witness ==
    /\ pc["main"] = "main_serve"
    /\ Len(Produced) > 2 * config.window + 1
    /\ LET k == Len(Produced)
           base == Produced[k].anom_score - BonusOf(Produced[k])
       IN  /\ base > 0 /\ base < 1000 * ScoreUnit
           /\ EntOf(1) # EntOf(k)
    /\ Len(loc["main"].hist_ent) = 2 * config.window

\* C15: every record has anom_score in [0, 1.8] and flux_type in 0..3; the
\* score is at most 1.0 for flux_type 0, at least 0.8 for 1 and 2, and in
\* [0.5, 1.5] for 3.
C15_ScoreRanges ==
    \A k \in 1..Len(Produced) :
        LET rec == Produced[k] IN
        /\ rec.anom_score >= 0 /\ rec.anom_score <= 1800 * ScoreUnit
        /\ rec.flux_type \in 0..3
        /\ rec.flux_type = 0 => rec.anom_score <= 1000 * ScoreUnit
        /\ rec.flux_type \in {1, 2} => rec.anom_score >= 800 * ScoreUnit
        /\ rec.flux_type = 3 =>
               rec.anom_score >= 500 * ScoreUnit /\ rec.anom_score <= 1500 * ScoreUnit

\* C15 witness: the store holds a record at the top of the range (clamped
\* base plus the spike bonus), one of flux_type 3 and one of flux_type 0
\* with a clamped base.
C15_Witness ==
    /\ \E k \in 1..Len(engines[ENGINE].rows) :
          /\ engines[ENGINE].rows[k].anom_score = 1800 * ScoreUnit
          /\ engines[ENGINE].rows[k].flux_type = 1
    /\ \E k \in 1..Len(engines[ENGINE].rows) : engines[ENGINE].rows[k].flux_type = 3
    /\ \E k \in 1..Len(engines[ENGINE].rows) :
          /\ engines[ENGINE].rows[k].flux_type = 0
          /\ engines[ENGINE].rows[k].anom_score = 1000 * ScoreUnit

\* the entropies that decide record k: its own and the up to 2*window
\* before it
RecentEnts(k) ==
    LET n == Min(k - 1, 2 * config.window) IN [j \in 1..(n + 1) |-> EntOf(k - n - 1 + j)]

\* C16: the annotation of record k is that of the last record of a scan
\* that consists of RecentEnts(k) only (other offsets, no earlier records,
\* no batch boundary, no pool): so any two scans that agree on RecentEnts
\* agree on the annotation.
C16_AnnotationFromRecentEntropies ==
    \A k \in 1..Len(Produced) :
        LET alone == ScanAnnotations(RecentEnts(k), config.window) IN
        /\ Produced[k].anom_score = alone[Len(alone)].anom_score
        /\ Produced[k].flux_type = alone[Len(alone)].flux_type

\* C16 witness: a record with more than 2*window predecessors, a nonzero
\* score, a batch boundary behind it and an earlier record outside its
\* window whose entropy differs from every entropy inside the window.
C16_Witness ==
    \E k \in 1..Len(engines[ENGINE].rows) :
        /\ k - 1 > 2 * config.window
        /\ engines[ENGINE].rows[k].anom_score > 0
        /\ \A j \in 1..Len(RecentEnts(k)) : RecentEnts(k)[j] # EntOf(1)

\* C32: batching loses and duplicates nothing.  Every insert_bulk made
\* while the stream lasts carries exactly BatchSize records and the one made
\* after it 1..BatchSize-1; the records inserted and batched are the stream's
\* records processed so far, once each and in stream order; while the scan
\* runs the committed count is the largest multiple of BatchSize not above
\* the processed count, and when it has returned every record is committed.
C32_BatchingExact ==
    [][LET rows == engines[ENGINE].rows
           rowsN == engines'[ENGINE].rows
           l == loc'["main"]
           all == rowsN \o l.batch
           k == Len(rowsN) - Len(rows)
       IN  /\ rowsN # rows =>
                 /\ SubSeq(rowsN, 1, Len(rows)) = rows
                 /\ pc'["main"] = "run_consume" => k = BatchSize
                 /\ pc'["main"] # "run_consume" => (1 <= k /\ k <= BatchSize - 1)
           /\ Len(all) = l.count
           /\ \A i \in 1..Len(all) :
                 /\ all[i].offset = l.res[i].offset
                 /\ all[i].entropy = l.res[i].ent
           /\ pc'["main"] = "run_consume" =>
                 Len(rowsN) = (l.count \div BatchSize) * BatchSize
           /\ pc'["main"] = "main_serve" =>
                 (l.batch = <<>> /\ Len(rowsN) = Len(l.res))]_vars

\* C32 witness: a scan has returned after at least one full batch and a
\* final partial batch.
C32_Witness ==
    /\ pc["main"] = "main_serve"
    /\ Len(engines[ENGINE].rows) > BatchSize
    /\ Len(engines[ENGINE].rows) % BatchSize # 0

(***************************************************************************)
(* SpecSearch: one GET /search handler over every small file and query     *)
(***************************************************************************)
\* bytes read per search window (chunk_size, 1024 * 1024 in the program)
SearchWindow == 3
\* longest needle a request carries (the request line is limited to 64 KiB,
\* far below one window)
MaxNeedle == 3

HexDigits == <<"0", "1", "2", "3", "4", "5", "6", "7", "8", "9", "a", "b", "c", "d", "e", "f">>
HexUpper == <<"0", "1", "2", "3", "4", "5", "6", "7", "8", "9", "A", "B", "C", "D", "E", "F">>

\* bytes.hex(): two lowercase digits per byte (what a client sends)
RECURSIVE Hexlify(_)
Hexlify(bs) ==
    IF bs = <<>> THEN <<>>
    ELSE <<HexDigits[(Head(bs) \div 16) + 1], HexDigits[(Head(bs) % 16) + 1]>>
             \o Hexlify(Tail(bs))

\* str.replace(" ", "")
StripSpaces(str) == SelectSeq(str, LAMBDA c : c # " ")

\* str.replace("0x", ""): every occurrence, left to right, not overlapping
RECURSIVE Strip0x(_)
Strip0x(str) ==
    IF Len(str) < 2 THEN str
    ELSE IF str[1] = "0" /\ str[2] = "x" THEN Strip0x(SubSeq(str, 3, Len(str)))
    ELSE <<str[1]>> \o Strip0x(Tail(str))

IsHexDigit(c) == \E i \in 1..16 : HexDigits[i] = c \/ HexUpper[i] = c
HexVal(c) == (CHOOSE i \in 1..16 : HexDigits[i] = c \/ HexUpper[i] = c) - 1

\* binascii.unhexlify(hex_str): the bytes, or the exception it raises
unhexlify(hex_str) ==
    IF Len(hex_str) % 2 = 1
    THEN [ok |-> FALSE, bytes |-> <<>>, error |-> "Odd-length string"]
    ELSE IF \E i \in 1..Len(hex_str) : ~IsHexDigit(hex_str[i])
    THEN [ok |-> FALSE, bytes |-> <<>>, error |-> "Non-hexadecimal digit found"]
    ELSE [ok |-> TRUE,
          bytes |-> [i \in 1..(Len(hex_str) \div 2) |->
                        16 * HexVal(hex_str[2 * i - 1]) + HexVal(hex_str[2 * i])],
          error |-> "none"]

\* query['hex'][0].replace(" ", "").replace("0x", "") and unhexlify
ParseNeedle(query) ==
    IF ~query.has THEN [ok |-> FALSE, bytes |-> <<>>, error |-> "'hex'"]
    ELSE unhexlify(Strip0x(StripSpaces(query.hex)))

\* data.find(needle): 0-based index of the first occurrence, -1 if none
FindSub(data, needle) ==
    LET n == Len(needle)
        hits == {i \in 0..(Len(data) - n) : SubSeq(data, i + 1, i + n) = needle}
    IN  IF hits = {} THEN -1 ELSE CHOOSE i \in hits : \A j \in hits : i <= j

\* the hex parameter of a request: absent, the hex of a needle (plain, with
\* a 0x prefix, or with a space between the bytes), or malformed
Spaced(bs) == IF Len(bs) < 2 THEN Hexlify(bs)
              ELSE Hexlify(<<bs[1]>>) \o <<" ">> \o Hexlify(Tail(bs))
Needles == BSeq(Bytes, MaxNeedle)
HexQueries ==
    {[has |-> FALSE, hex |-> <<>>]}
    \cup {[has |-> TRUE, hex |-> Hexlify(n)] : n \in Needles}
    \cup {[has |-> TRUE, hex |-> <<"0", "x">> \o Hexlify(n)] : n \in Needles}
    \cup {[has |-> TRUE, hex |-> Spaced(n)] : n \in Needles}
    \cup {[has |-> TRUE, hex |-> h] :
             h \in {<<"4">>, <<"4", "1", "0">>, <<"z", "z">>, <<"4", "g">>, <<"0", "0", "x", "4", "1">>}}

NoBody == [found |-> FALSE, offset |-> -1, error |-> "none"]

\* the locals of the /search handler
SearchLoc(query) ==
    [req |-> "search", query |-> query, needle |-> <<>>, fpos |-> 0, pos |-> 0,
     status |-> 0, body |-> NoBody]

\* The server is up with a scanned file whose bytes are cfile; handler h1 has
\* accepted a GET /search.
InitSearch ==
    /\ impl \in Impls
    /\ cfile \in BSeq(Bytes, MaxFileLen)
    /\ cscanner = [mode |-> "FIXED", size |-> 1, delimiter |-> 0]
    /\ gen = GenInit
    /\ config = [mode |-> "FIXED", size |-> 1, delimiter |-> 0, window |-> 5]
    /\ file_path = "a.bin"
    /\ ENGINE = 1
    /\ engines = <<NewEngine>>
    /\ pc = [t \in {"h1"} |-> "search_parse"]
    /\ \E q \in HexQueries : loc = [t \in {"h1"} |-> SearchLoc(q)]
    /\ nreq = 1

\* self.send_json(...) ends the handler
SendJson(t, l, body) ==
    /\ loc' = [loc EXCEPT ![t] = [l EXCEPT !.status = 200, !.body = body]]
    /\ pc' = [pc EXCEPT ![t] = "done"]

\* package: _handle_search is "pass", the handler returns without a response.
\* monolith: parse the needle (an exception is answered with found False and
\* the error), then open SERVER_FILE_PATH.
SearchParse(t) ==
    /\ pc[t] = "search_parse"
    /\ IF impl = "pkg"
       THEN /\ pc' = [pc EXCEPT ![t] = "done"]
            /\ loc' = loc
       ELSE LET p == ParseNeedle(loc[t].query) IN
            IF ~p.ok
            THEN SendJson(t, loc[t], [found |-> FALSE, offset |-> -1, error |-> p.error])
            ELSE /\ loc' = [loc EXCEPT ![t].needle = p.bytes, ![t].fpos = 0, ![t].pos = 0]
                 /\ pc' = [pc EXCEPT ![t] = "search_read"]
    /\ UNCHANGED <<impl, chunkVars, config, file_path, ENGINE, engines, nreq>>

\* one iteration of the window loop; leaving the loop sends the answer
SearchReadSeekNeedle(t) ==
    /\ pc[t] = "search_read"
    /\ LET l == loc[t]
           data == ReadBytes(cfile, l.fpos, SearchWindow)
           idx == FindSub(data, l.needle)
           back == l.fpos + Len(data) - Len(l.needle)
       IN  IF data = <<>>
           THEN SendJson(t, l, [found |-> FALSE, offset |-> -1, error |-> "none"])
           ELSE IF idx # -1
           THEN SendJson(t, l, [found |-> TRUE, offset |-> l.pos + idx, error |-> "none"])
           ELSE IF Len(data) = SearchWindow
           THEN /\ loc' = [loc EXCEPT ![t].fpos = back, ![t].pos = back]
                /\ pc' = pc
           ELSE /\ loc' = [loc EXCEPT ![t].fpos = l.fpos + Len(data),
                                      ![t].pos = l.pos + Len(data)]
                /\ pc' = pc
    /\ UNCHANGED <<impl, chunkVars, config, file_path, ENGINE, engines, nreq>>
SearchRead(t) ==
    /\ pc[t] = "search_read"
    /\ LET l == loc[t]
           data == ReadBytes(cfile, l.fpos, SearchWindow)
           idx == FindSub(data, l.needle)
           back == l.fpos + Len(data) - (Len(l.needle) - 1)
       IN  IF data = <<>>
           THEN SendJson(t, l, [found |-> FALSE, offset |-> -1, error |-> "none"])
           ELSE IF idx # -1
           THEN SendJson(t, l, [found |-> TRUE, offset |-> l.pos + idx, error |-> "none"])
           ELSE IF Len(data) = SearchWindow
           THEN IF back < 0
                THEN SendJson(t, l, [found |-> FALSE, offset |-> -1,
                                     error |-> "Invalid argument"])
                ELSE /\ loc' = [loc EXCEPT ![t].fpos = back, ![t].pos = back]
                     /\ pc' = pc
           ELSE /\ loc' = [loc EXCEPT ![t].fpos = l.fpos + Len(data),
                                      ![t].pos = l.pos + Len(data)]
                /\ pc' = pc
    /\ UNCHANGED <<impl, chunkVars, config, file_path, ENGINE, engines, nreq>>

NextSearch ==
    \/ SearchParse("h1")
    \/ SearchRead("h1")

SpecSearch == InitSearch /\ [][NextSearch]_vars

(***************************************************************************)
(* Claims on /search                                                       *)
(***************************************************************************)
\* the needle the client asked for
Asked == ParseNeedle(loc["h1"].query)

\* the session state is what it was when the request arrived
SessionUntouched ==
    /\ config = [mode |-> "FIXED", size |-> 1, delimiter |-> 0, window |-> 5]
    /\ file_path = "a.bin"
    /\ ENGINE = 1
    /\ engines = <<NewEngine>>

\* C19: when the handler of a /search for a non-empty needle that occurs in
\* the file has finished, it has answered found = true with the offset of
\* the needle's first occurrence in the file.
C19_SearchFindsFirstOccurrence ==
    (/\ pc["h1"] = "done"
     /\ Asked.ok /\ Asked.bytes # <<>>
     /\ FindSub(cfile, Asked.bytes) # -1)
    => /\ loc["h1"].status = 200
       /\ loc["h1"].body = [found |-> TRUE, offset |-> FindSub(cfile, Asked.bytes),
                            error |-> "none"]

\* C20: when the handler of a /search whose hex parameter is missing or
\* malformed has finished, it has answered with a JSON body found = false
\* plus an error message, and the session state is untouched.
C20_MalformedHexAnswered ==
    (pc["h1"] = "done" /\ ~Asked.ok)
    => /\ loc["h1"].status = 200
       /\ loc["h1"].body.found = FALSE
       /\ loc["h1"].body.error # "none"
       /\ SessionUntouched

\* The /search handler with a well-formed needle sent as plain hex (the loop
\* sees only the parsed needle): any first byte followed by null bytes, of
\* every length up to MaxNeedle; the handler thread always scheduled.
PlainNeedles == {n \in Needles : \A i \in 2..Len(n) : n[i] = ByteTable[1]}

InitSearchPlain ==
    /\ impl \in Impls
    /\ cfile \in BSeq(Bytes, MaxFileLen)
    /\ cscanner = [mode |-> "FIXED", size |-> 1, delimiter |-> 0]
    /\ gen = GenInit
    /\ config = [mode |-> "FIXED", size |-> 1, delimiter |-> 0, window |-> 5]
    /\ file_path = "a.bin"
    /\ ENGINE = 1
    /\ engines = <<NewEngine>>
    /\ pc = [t \in {"h1"} |-> "search_parse"]
    /\ \E n \in PlainNeedles :
          loc = [t \in {"h1"} |-> SearchLoc([has |-> TRUE, hex |-> Hexlify(n)])]
    /\ nreq = 1

SpecSearchFair == InitSearchPlain /\ [][NextSearch]_vars /\ WF_vars(NextSearch)

\* C36: for a needle no longer than the window the /search loop ends.  A
\* full window without a match moves the file position forward by
\* window - (len(needle) - 1) >= 1 bytes, a short window without a match
\* leaves nothing to read, and at every read the position base pos is the
\* file offset of the window's first byte.
C36_SearchTerminates ==
    /\ <>(pc["h1"] = "done")
    /\ [](pc["h1"] = "search_read" => loc["h1"].pos = loc["h1"].fpos)
    /\ [][(pc["h1"] = "search_read" /\ pc'["h1"] = "search_read") =>
             LET l == loc["h1"]
                 data == ReadBytes(cfile, l.fpos, SearchWindow)
             IN  IF Len(data) = SearchWindow
                 THEN /\ loc'["h1"].fpos = l.fpos + SearchWindow - (Len(l.needle) - 1)
                      /\ loc'["h1"].fpos >= l.fpos + 1
                 ELSE loc'["h1"].fpos = Len(cfile)]_vars

\* C36 witness: a needle as long as the window was found in a later window,
\* after a full window without a match.
C36_Witness ==
    /\ pc["h1"] = "done"
    /\ Len(loc["h1"].needle) = SearchWindow
    /\ loc["h1"].body.found
    /\ loc["h1"].body.offset >= 1

(***************************************************************************)
(* ArchID.identify                                                         *)
(***************************************************************************)
\* data.startswith(prefix)
StartsWith(data, prefix) ==
    Len(data) >= Len(prefix) /\ SubSeq(data, 1, Len(prefix)) = prefix

\* b'MZ', b'\x7fELF', b'\xca\xfe\xba\xbe', b'\xfe\xed\xfa\xce', b'%PDF',
\* b'\x89PNG', b'\xff\xd8\xff'
MagicMZ == <<77, 90>>
MagicELF == <<127, 69, 76, 70>>
MagicMachO == <<202, 254, 186, 190>>
MagicMachO32 == <<254, 237, 250, 206>>
MagicPDF == <<37, 80, 68, 70>>
MagicPNG == <<137, 80, 78, 71>>
MagicJPEG == <<255, 216, 255>>

Returned(label) == [raised |-> FALSE, label |-> label]
Raised(exc) == [raised |-> TRUE, label |-> exc]

\* if length < 4: return "Too small to analyze"
TooSmallBelowTwo(length) == length < 2
TooSmall(length) == length < 4

\* FastMath.entropy(data) * len(data), in millionths of a bit
EntropyTimesLen(data) ==
    LET n == Len(data)
        counts == Counter(data)
        w == [b \in DOMAIN counts |-> counts[b] * Log2MicroOf(counts[b])]
    IN  n * Log2MicroOf(n) - SumOver(w, DOMAIN counts)

\* sum(1 for b in data if 32 <= b <= 126 or b in [9, 10, 13])
Printable(data) ==
    Cardinality({i \in 1..Len(data) :
                    (32 <= data[i] /\ data[i] <= 126) \/ data[i] \in {9, 10, 13}})

\* counts.get(byte_val, 0)
CountOf(data, byte_val) == Cardinality({i \in 1..Len(data) : data[i] = byte_val})

\* the three scores, each multiplied by len(data)
ScoreX86(data) ==
    5 * CountOf(data, 195) + 3 * CountOf(data, 144) + 2 * CountOf(data, 85) + CountOf(data, 137)
ScoreX64(data) == ScoreX86(data) + 3 * CountOf(data, 72)
ScoreArm64(data) ==
    IF Len(data) > 8
    THEN 10 * Cardinality({i \in 1..Len(data) : i % 4 = 0 /\ data[i] = 0})
    ELSE 0

\* max(scores, key=scores.get): the first of x86, x64, arm64 with the
\* greatest score; [arch, score]
BestArch(data, armLabel) ==
    LET x86 == ScoreX86(data)
        x64 == ScoreX64(data)
        arm == ScoreArm64(data)
    IN  IF x86 >= x64 /\ x86 >= arm THEN [arch |-> "x86 (32-bit)", score |-> x86]
        ELSE IF x64 >= arm THEN [arch |-> "x86_64 (64-bit)", score |-> x64]
        ELSE [arch |-> armLabel, score |-> arm]

\* return best_arch + " Code (Probable)"
CodeLabel(arch) ==
    CASE arch = "x86 (32-bit)" -> "x86 (32-bit) Code (Probable)"
      [] arch = "x86_64 (64-bit)" -> "x86_64 (64-bit) Code (Probable)"
      [] arch = "ARM64" -> "ARM64 Code (Probable)"
      [] OTHER -> "ARM64 / AArch64 Code (Probable)"

\* the ELF branch: data[4] of a 4-byte slice raises IndexError
ElfLabel(data) ==
    IF Len(data) < 5 THEN Raised("IndexError")
    ELSE IF data[5] = 2 THEN Returned("Linux ELF Header (64-bit)")
    ELSE Returned("Linux ELF Header (32-bit)")

\* sentinelnav.py ArchID.identify
IdentifyMono(data) ==
    LET length == Len(data)
        ent == EntropyTimesLen(data)
        best == BestArch(data, "ARM64 / AArch64")
    IN  IF data = <<>> THEN Returned("Empty Region")
        ELSE IF TooSmall(length) THEN Returned("Too small to analyze")
        ELSE IF StartsWith(data, MagicMZ) THEN Returned("Windows PE Header (x86/64)")
        ELSE IF StartsWith(data, MagicELF) THEN ElfLabel(data)
        ELSE IF StartsWith(data, MagicMachO) \/ StartsWith(data, MagicMachO32)
             THEN Returned("Mac Mach-O Header")
        ELSE IF StartsWith(data, MagicPDF) THEN Returned("PDF Document Header")
        ELSE IF StartsWith(data, MagicPNG) THEN Returned("PNG Image Header")
        ELSE IF StartsWith(data, MagicJPEG) THEN Returned("JPEG Image Header")
        ELSE IF ent < 1000000 * length THEN Returned("Null Padding / Zero Space")
        ELSE IF ent < 3000000 * length THEN Returned("Low Entropy (Sparse Data)")
        ELSE IF ent > 7900000 * length THEN Returned("High Entropy (Crypto/Compressed)")
        ELSE IF 10 * Printable(data) > 9 * length THEN Returned("ASCII Text / Source Code")
        ELSE IF 20 * best.score < length
             THEN (IF ent > 6000000 * length THEN Returned("Unknown High Density Data")
                   ELSE Returned("Unknown Binary Data"))
        ELSE Returned(CodeLabel(best.arch))

\* sentinel/core.py ArchID.identify
IdentifyPkg(data) ==
    LET length == Len(data)
        ent == EntropyTimesLen(data)
        best == BestArch(data, "ARM64")
    IN  IF data = <<>> THEN Returned("Empty Region")
        ELSE IF TooSmall(length) THEN Returned("Too small to analyze")
        ELSE IF StartsWith(data, MagicMZ) THEN Returned("Windows PE Header (x86/64)")
        ELSE IF StartsWith(data, MagicELF) THEN ElfLabel(data)
        ELSE IF StartsWith(data, MagicMachO) \/ StartsWith(data, MagicMachO32)
             THEN Returned("Mac Mach-O Header")
        ELSE IF StartsWith(data, MagicPDF) THEN Returned("PDF Document Header")
        ELSE IF 10 * Printable(data) > 9 * length THEN Returned("ASCII Text / Source Code")
        ELSE IF ent < 1000000 * length THEN Returned("Null Padding / Zero Space")
        ELSE IF ent > 7900000 * length THEN Returned("High Entropy (Crypto/Compressed)")
        ELSE IF 20 * best.score < length THEN Returned("Unknown Binary Data")
        ELSE Returned(CodeLabel(best.arch))

identify(data, im) == IF im = "mono" THEN IdentifyMono(data) ELSE IdentifyPkg(data)

(***************************************************************************)
(* SpecArch: identify applied to every slice made of a header prefix and a *)
(* short tail                                                              *)
(***************************************************************************)
\* longest tail after the prefix
MaxTail == 4

\* the starts of the slices: nothing, the magic numbers, and pieces of them
ArchPrefixes ==
    {<<>>, MagicMZ, MagicELF, MagicELF \o <<2>>, MagicELF \o <<1>>, MagicMachO,
     MagicMachO32, MagicPDF, MagicPNG, MagicJPEG, <<77>>, <<255, 216>>}

\* the bytes of the tails: 0x00, 'A', 0xC3 (RET), 0x48 (REX.W), 0xC8
ArchBytes == {0, 65, 195, 72, 200}

ArchInputs == {p \o t : p \in ArchPrefixes, t \in BSeq(ArchBytes, MaxTail)}

NoResult == [raised |-> FALSE, label |-> "none"]

\* A caller (/read, the text export) is about to call ArchID.identify on the
\* slice cfile.
InitArch ==
    /\ impl \in Impls
    /\ cfile \in ArchInputs
    /\ cscanner = [mode |-> "FIXED", size |-> 1, delimiter |-> 0]
    /\ gen = GenInit
    /\ config = [mode |-> "FIXED", size |-> 1, delimiter |-> 0, window |-> 5]
    /\ file_path = "a.bin"
    /\ ENGINE = 1
    /\ engines = <<NewEngine>>
    /\ pc = [t \in {"h1"} |-> "identify"]
    /\ loc = [t \in {"h1"} |-> [req |-> "identify", result |-> NoResult]]
    /\ nreq = 1

\* arch_guess = ArchID.identify(data)
Identify(t) ==
    /\ pc[t] = "identify"
    /\ loc' = [loc EXCEPT ![t].result = identify(cfile, impl)]
    /\ pc' = [pc EXCEPT ![t] = "done"]
    /\ UNCHANGED <<impl, chunkVars, config, file_path, ENGINE, engines, nreq>>

NextArch == Identify("h1")

SpecArch == InitArch /\ [][NextArch]_vars

(***************************************************************************)
(* Claims on the fingerprinter                                             *)
(***************************************************************************)
\* the slice starts with one of the six magic numbers
HasMagic(data) ==
    \/ StartsWith(data, MagicMZ) \/ StartsWith(data, MagicELF)
    \/ StartsWith(data, MagicMachO) \/ StartsWith(data, MagicMachO32)
    \/ StartsWith(data, MagicPDF) \/ StartsWith(data, MagicPNG)
    \/ StartsWith(data, MagicJPEG)

FrequencyLabels ==
    {"x86 (32-bit) Code (Probable)", "x86_64 (64-bit) Code (Probable)",
     "ARM64 / AArch64 Code (Probable)", "Unknown High Density Data", "Unknown Binary Data"}

LabelSet ==
    {"Empty Region", "Too small to analyze", "Windows PE Header (x86/64)",
     "Linux ELF Header (64-bit)", "Linux ELF Header (32-bit)", "Mac Mach-O Header",
     "PDF Document Header", "PNG Image Header", "JPEG Image Header",
     "Null Padding / Zero Space", "Low Entropy (Sparse Data)",
     "High Entropy (Crypto/Compressed)", "ASCII Text / Source Code"}
    \cup FrequencyLabels

\* C26: for a slice of at least 4 bytes on which identify returned, the
\* label is that of the first rule that matches in the order: magic
\* prefixes (PE, ELF, Mach-O, PDF, PNG, JPEG), entropy (H < 1.0, H < 3.0,
\* H > 7.9), printable ratio > 0.90, frequency scoring.
C26_RulesInOrder ==
    (pc["h1"] = "done" /\ Len(cfile) >= 4 /\ ~loc["h1"].result.raised) =>
        LET data == cfile
            n == Len(data)
            H == EntropyTimesLen(data)
            label == loc["h1"].result.label
        IN  /\ StartsWith(data, MagicMZ) => label = "Windows PE Header (x86/64)"
            /\ StartsWith(data, MagicELF) =>
                   label = IF data[5] = 2 THEN "Linux ELF Header (64-bit)"
                           ELSE "Linux ELF Header (32-bit)"
            /\ (StartsWith(data, MagicMachO) \/ StartsWith(data, MagicMachO32)) =>
                   label = "Mac Mach-O Header"
            /\ StartsWith(data, MagicPDF) => label = "PDF Document Header"
            /\ StartsWith(data, MagicPNG) => label = "PNG Image Header"
            /\ StartsWith(data, MagicJPEG) => label = "JPEG Image Header"
            /\ (~HasMagic(data) /\ H < 1000000 * n) => label = "Null Padding / Zero Space"
            /\ (~HasMagic(data) /\ H >= 1000000 * n /\ H < 3000000 * n) =>
                   label = "Low Entropy (Sparse Data)"
            /\ (~HasMagic(data) /\ H > 7900000 * n) =>
                   label = "High Entropy (Crypto/Compressed)"
            /\ (~HasMagic(data) /\ H >= 3000000 * n /\ H <= 7900000 * n) =>
                   IF 10 * Printable(data) > 9 * n THEN label = "ASCII Text / Source Code"
                   ELSE label \in FrequencyLabels

\* C27: identify returns on every slice, with a label of the label set.
C27_IdentifyTotal ==
    pc["h1"] = "done" =>
        /\ ~loc["h1"].result.raised
        /\ loc["h1"].result.label \in LabelSet

\* C28: an empty slice is "Empty Region" and a slice of 1 to 3 bytes is
\* "Too small to analyze", whatever its bytes.
C28_ShortSlices ==
    pc["h1"] = "done" =>
        /\ Len(cfile) = 0 => loc["h1"].result = Returned("Empty Region")
        /\ Len(cfile) \in 1..3 => loc["h1"].result = Returned("Too small to analyze")

\* C28 witness: the three bytes FF D8 FF have been identified as too small.
C28_Witness ==
    /\ pc["h1"] = "done"
    /\ cfile = MagicJPEG
    /\ loc["h1"].result.label = "Too small to analyze"

(***************************************************************************)
(* SpecRead: one GET /read handler over every small file, offset and       *)
(* length                                                                  *)
(***************************************************************************)
\* the most bytes /read asks the file for (8192 in the program)
ReadClamp == 2

\* f.seek(offset): the new position, or OSError for a negative offset
SeekOk(offset) == offset >= 0

\* f.read(n) of a buffered binary file at position pos: n = -1 reads to the
\* end of the file, n < -1 raises ValueError
FileReadOk(n) == n >= -1
FileRead(f, pos, n) ==
    IF n = -1 THEN SubSeq(f, pos + 1, Len(f)) ELSE ReadBytes(f, pos, n)

\* the offset and length parameters of a request: present or not
ReadQueries ==
    [has : {TRUE}, offset : -1..(MaxFileLen + 1), length : -2..(MaxFileLen + 1)]
    \cup {[has |-> FALSE, offset |-> 0, length |-> 0]}

\* the locals of the /read handler and its response
ReadLoc(query) ==
    [req |-> "read", query |-> query, offset |-> 0, length |-> 0,
     status |-> 0, hex |-> <<>>, arch |-> "none"]

\* The server is up with a scanned file whose bytes are cfile; handler h1 has
\* accepted a GET /read.
InitRead ==
    /\ impl \in Impls
    /\ cfile \in BSeq(Bytes, MaxFileLen)
    /\ cscanner = [mode |-> "FIXED", size |-> 1, delimiter |-> 0]
    /\ gen = GenInit
    /\ config = [mode |-> "FIXED", size |-> 1, delimiter |-> 0, window |-> 5]
    /\ file_path = "a.bin"
    /\ ENGINE = 1
    /\ engines = <<NewEngine>>
    /\ pc = [t \in {"h1"} |-> "read_parse"]
    /\ \E q \in ReadQueries : loc = [t \in {"h1"} |-> ReadLoc(q)]
    /\ nreq = 1

\* an exception in /read: the monolith answers 500, the package's handler
\* dies without a response
ReadFail(t) ==
    /\ loc' = [loc EXCEPT ![t].status = IF impl = "mono" THEN 500 ELSE 0]
    /\ pc' = [pc EXCEPT ![t] = "done"]

\* offset = int(query['offset'][0]); length = min(int(query['length'][0]), 8192)
ReadParse(t) ==
    /\ pc[t] = "read_parse"
    /\ IF ~loc[t].query.has
       THEN ReadFail(t)
       ELSE /\ loc' = [loc EXCEPT ![t].offset = loc[t].query.offset,
                                  ![t].length = Min(loc[t].query.length, ReadClamp)]
            /\ pc' = [pc EXCEPT ![t] = "read_file"]
    /\ UNCHANGED <<impl, chunkVars, config, file_path, ENGINE, engines, nreq>>

\* f.seek(offset); data = f.read(length); ArchID.identify(data); send_json
ReadFile(t) ==
    /\ pc[t] = "read_file"
    /\ LET l == loc[t]
           data == FileRead(cfile, l.offset, l.length)
       IN  IF ~SeekOk(l.offset) \/ ~FileReadOk(l.length)
           THEN ReadFail(t)
           ELSE IF identify(data, impl).raised
           THEN ReadFail(t)
           ELSE /\ loc' = [loc EXCEPT ![t].status = 200, ![t].hex = Hexlify(data),
                                      ![t].arch = identify(data, impl).label]
                /\ pc' = [pc EXCEPT ![t] = "done"]
    /\ UNCHANGED <<impl, chunkVars, config, file_path, ENGINE, engines, nreq>>

NextRead ==
    \/ ReadParse("h1")
    \/ ReadFile("h1")

SpecRead == InitRead /\ [][NextRead]_vars

\* C21: the hex payload of a /read response decodes to at most 8192 bytes
\* (two hex digits per byte), whatever the offset and length parameters.
C21_ReadAtMostClamp ==
    Len(loc["h1"].hex) <= 2 * ReadClamp

(***************************************************************************)
(* SpecData: one GET /data handler, any page and size, on the store a      *)
(* finished scan of a small file has filled                                *)
(***************************************************************************)
\* the values of the page and size parameters
MaxPage == 2

\* Processor.run without interleaving: the records the result loop inserts
\* for the worker results res[i..], hist_ent and prev_ent carried along
RECURSIVE RunRows(_, _, _, _, _)
RunRows(res, i, hist_ent, prev_ent, window_size) ==
    IF i > Len(res) THEN <<>>
    ELSE <<Annotate(res[i], hist_ent, prev_ent, window_size)>>
             \o RunRows(res, i + 1, PushHist(hist_ent, res[i].ent, window_size),
                        res[i].ent, window_size)

\* the store after Processor.run(f) with scanner sc
ScannedStore(f, sc, im, window_size) ==
    LET chunks == yield_raw_chunks(f, sc, im)
        res == [i \in 1..Len(chunks) |-> WorkerScan(chunks[i])]
        batch == RunRows(res, 1, <<>>, 0, window_size)
    IN  IF batch = <<>> THEN NewEngine ELSE insert_bulk(NewEngine, batch)

\* The first scan is over and the server is up; handler h1 has accepted a
\* GET /data and parsed its page and size.
InitData ==
    /\ impl \in Impls
    /\ cfile \in BSeq(Bytes, MaxFileLen)
    /\ cscanner = [mode |-> "FIXED", size |-> 1, delimiter |-> 0]
    /\ gen = GenInit
    /\ config = [mode |-> "FIXED", size |-> 1, delimiter |-> 0, window |-> 5]
    /\ file_path = "a.bin"
    /\ ENGINE = 1
    /\ engines = <<ScannedStore(cfile, cscanner, impl, config.window)>>
    /\ pc = [t \in Threads |-> IF t = "h1" THEN "page_exec" ELSE "idle"]
    /\ \E p \in (-MaxPage)..MaxPage, ps \in (-MaxPage)..(MaxPage + 1) :
          loc = [t \in Threads |->
                    IF t = "h1"
                    THEN [LocInit EXCEPT !.req = "data", !.page = p, !.size = ps]
                    ELSE LocInit]
    /\ nreq = 1

NextData ==
    \/ PageExec("h1")
    \/ PageFetch("h1")
    \/ CountExec("h1")
    \/ CountFetch("h1")

SpecData == InitData /\ [][NextData]_vars

\* C22: a /data request whose page is negative or whose size is zero or
\* negative is answered with HTTP 400 and no rows.
C22_OutOfRangeRejected ==
    \A t \in Handlers :
        (/\ pc[t] = "done" /\ loc[t].req = "data"
         /\ (loc[t].page < 0 \/ loc[t].size <= 0))
        => (loc[t].status = 400 /\ loc[t].chunks = <<>>)

(***************************************************************************)
(* SpecMain: main() from the first scan to the end of the process, with    *)
(* console interrupts, a failing scan and a failing bind                   *)
(***************************************************************************)
\* main() has parsed its arguments (any path may be the target) and, in the
\* package, created the engine; the monolith creates it in Processor.run.
InitMain ==
    /\ impl \in Impls
    /\ ChunkIdle
    /\ \E c \in Configs :
          config = [mode |-> c.mode, size |-> c.size, delimiter |-> c.delimiter,
                    window |-> IF impl = "mono" THEN 1 ELSE 5]
    /\ ENGINE = IF impl = "mono" THEN 0 ELSE 1
    /\ engines = IF impl = "mono" THEN <<>> ELSE <<NewEngine>>
    /\ pc = [t \in Threads |->
                IF t = "main" THEN (IF impl = "mono" THEN "run_close" ELSE "run_submit")
                ELSE "idle"]
    /\ \E target \in Paths :
          /\ file_path = IF impl = "mono" THEN target ELSE "none"
          /\ loc = [t \in Threads |->
                       IF t = "main" THEN [LocInit EXCEPT !.req = "main", !.new_path = target]
                       ELSE LocInit]
    /\ nreq = 0

\* "if ENGINE: ENGINE.close()" / "engine.close()" on the way out of main
CloseCurrent ==
    engines' = IF ENGINE = 0 THEN engines
               ELSE [engines EXCEPT ![ENGINE] = CloseEngine(@)]

\* SIGINT while main is in Processor.run: except KeyboardInterrupt: close; return
SigintScan ==
    /\ pc["main"] \in RunPcs
    /\ CloseCurrent
    /\ pc' = [pc EXCEPT !["main"] = "exited"]
    /\ UNCHANGED <<impl, chunkVars, config, file_path, ENGINE, loc, nreq>>

\* ThreadedHTTPServer(...) raises OSError (the port is in use): the monolith
\* catches it, the package lets it pass; both run the finally clause next
BindFail ==
    /\ pc["main"] = "main_serve"
    /\ file_path' = loc["main"].new_path
    /\ pc' = [pc EXCEPT !["main"] = "port_in_use"]
    /\ UNCHANGED <<impl, chunkVars, config, ENGINE, engines, loc, nreq>>

\* SIGINT while main is in serve_forever: except KeyboardInterrupt
SigintServe ==
    /\ pc["main"] = "serving"
    /\ pc' = [pc EXCEPT !["main"] = "interrupted"]
    /\ UNCHANGED <<impl, chunkVars, config, file_path, ENGINE, engines, loc, nreq>>

\* finally: engine.close(); main returns, or the package's OSError leaves it
MainFinally ==
    /\ pc["main"] \in {"port_in_use", "interrupted"}
    /\ CloseCurrent
    /\ pc' = [pc EXCEPT !["main"] = IF impl = "pkg" /\ pc["main"] = "port_in_use"
                                    THEN "crashed" ELSE "exited"]
    /\ UNCHANGED <<impl, chunkVars, config, file_path, ENGINE, loc, nreq>>

NextMain ==
    \/ RunClose("main")
    \/ RunNew("main")
    \/ RunSubmit("main")
    \/ \E g \in 1..Cardinality(Groups(Len(loc["main"].res))) : WorkerFinish("main", g)
    \/ Consume("main")
    \/ RunFinal("main")
    \/ MainServe
    \/ SigintScan
    \/ BindFail
    \/ SigintServe
    \/ MainFinally

SpecMain == InitMain /\ [][NextMain]_vars

\* the process is over: main returned, or an exception left main
ProcessEnded == pc["main"] \in {"exited", "crashed"}

\* C24: whenever the process has ended, every store created during the run
\* has been closed and its backing file deleted.
C24_NoStoreSurvivesExit ==
    ProcessEnded => \A e \in 1..Len(engines) : ~engines[e].open

(***************************************************************************)
(* SpecWorker: _worker_scan on every short chunk over bytes of all three   *)
(* bands and 0x7F                                                          *)
(***************************************************************************)
\* longest chunk handed to the worker
MaxChunk == 6

\* one byte of each band (b, g, r) and 0x7F
WorkerBytes == {0, 65, 200, 127}

NoRecord == [offset |-> 0, length |-> 0, ent |-> 0, r |-> 0, g |-> 0, b |-> 0]

\* A pool worker w1 has received the task (offset, data) of a chunk.
InitWorker ==
    /\ impl \in Impls
    /\ ChunkIdle
    /\ config = [mode |-> "FIXED", size |-> MaxChunk, delimiter |-> 0, window |-> 5]
    /\ file_path = "a.bin"
    /\ ENGINE = 1
    /\ engines = <<NewEngine>>
    /\ pc = [t \in {"w1"} |-> "worker_scan"]
    /\ \E data \in BSeq(WorkerBytes, MaxChunk) \ {<<>>} :
          loc = [t \in {"w1"} |->
                    [req |-> "worker", args |-> [offset |-> 0, data |-> data],
                     result |-> NoRecord]]
    /\ nreq = 0

\* return (offset, length, round(ent, 3), round(r/length, 3), ...)
WorkerReturn(t) ==
    /\ pc[t] = "worker_scan"
    /\ loc' = [loc EXCEPT ![t].result = WorkerScan(loc[t].args)]
    /\ pc' = [pc EXCEPT ![t] = "done"]
    /\ UNCHANGED <<impl, chunkVars, config, file_path, ENGINE, engines, nreq>>

NextWorker == WorkerReturn("w1")

SpecWorker == InitWorker /\ [][NextWorker]_vars

\* C30: for every record, the stored fractions (thousandths) satisfy
\* 0 <= r + g + b <= 1 and r + g + b = 1 - (count of 0x7F)/length.
C30_BandFractionsSum ==
    pc["w1"] = "done" =>
        LET rec == loc["w1"].result
            data == loc["w1"].args.data
            sum == rec.r + rec.g + rec.b
        IN  /\ 0 <= sum /\ sum <= 1000
            /\ sum * rec.length = 1000 * (rec.length - CountOf(data, 127))

(***************************************************************************)
(* BMPGenerator.create_bmp (the two copies are the same code)              *)
(***************************************************************************)
\* struct.pack('<I' / '<H', x): the k bytes of x >= 0, least significant first
RECURSIVE PackLE(_, _)
PackLE(x, k) == IF k = 0 THEN <<>> ELSE <<x % 256>> \o PackLE(x \div 256, k - 1)

\* struct.pack('<i', x): two's complement, the complement of -x - 1 if x < 0
PackSigned(x) ==
    IF x >= 0 THEN PackLE(x, 4)
    ELSE [i \in 1..4 |-> 255 - PackLE(-x - 1, 4)[i]]

\* int(math.ceil(math.sqrt(count)))
CeilSqrt(count) == CHOOSE w \in 0..count : w * w >= count /\ (w = 0 \/ (w - 1) * (w - 1) < count)

\* int(math.ceil(count / width))
CeilDiv(count, width) == (count + width - 1) \div width

\* row_size = (width * 3 + 3) & ~3
RowSizeUnpadded(width) == width * 3
RowSize(width) == ((width * 3 + 3) \div 4) * 4

\* min(255, int(x * 255)) of a fraction stored in thousandths
Quantize(x) == Min(255, (x * 255) \div 1000)

\* one row with the channels stored in the order of the tuple (r, g, b)
RowDataTupleOrder(rgb_tuples, y, width) ==
    LET pixels == [j \in 1..(3 * width) |->
                      LET idx == y * width + ((j - 1) \div 3)
                          c == (j - 1) % 3
                      IN  IF idx < Len(rgb_tuples)
                          THEN Quantize(rgb_tuples[idx + 1][c + 1])
                          ELSE 0]
        padding == (4 - (Len(pixels) % 4)) % 4
    IN  pixels \o [j \in 1..padding |-> 0]

\* one row: [b, g, r] for each pixel of the row, black beyond count, then
\* (4 - len(row_data) % 4) % 4 zero bytes
RowData(rgb_tuples, y, width) ==
    LET pixels == [j \in 1..(3 * width) |->
                      LET idx == y * width + ((j - 1) \div 3)
                          c == (j - 1) % 3
                      IN  IF idx < Len(rgb_tuples)
                          THEN Quantize(rgb_tuples[idx + 1][3 - c])
                          ELSE 0]
        padding == (4 - (Len(pixels) % 4)) % 4
    IN  pixels \o [j \in 1..padding |-> 0]

\* for y in range(height): pixel_data.extend(row_data), rows y..height-1
RECURSIVE PixelData(_, _, _, _)
PixelData(rgb_tuples, y, width, height) ==
    IF y >= height THEN <<>>
    ELSE RowData(rgb_tuples, y, width) \o PixelData(rgb_tuples, y + 1, width, height)

create_bmp(rgb_tuples) ==
    LET count == Len(rgb_tuples) IN
    IF count = 0 THEN <<>>
    ELSE LET width == CeilSqrt(count)
             height == CeilDiv(count, width)
             row_size == RowSize(width)
             pixel_array_size == row_size * height
             file_size == 54 + pixel_array_size
             header == <<66, 77>> \o PackLE(file_size, 4) \o PackLE(0, 2) \o PackLE(0, 2)
                           \o PackLE(54, 4)
             dib == PackLE(40, 4) \o PackSigned(width) \o PackSigned(-height)
                        \o PackLE(1, 2) \o PackLE(24, 2) \o PackLE(0, 4)
                        \o PackLE(pixel_array_size, 4) \o PackLE(2835, 4) \o PackLE(2835, 4)
                        \o PackLE(0, 4) \o PackLE(0, 4)
         IN  header \o dib \o PixelData(rgb_tuples, 0, width, height)

(***************************************************************************)
(* SpecBmp: create_bmp on every short stream of (r, g, b) rows             *)
(***************************************************************************)
\* longest stream of triples encoded
MaxTriples == 10

\* (r_val, g_val, b_val) rows, in thousandths
TripleValues == {<<0, 1000, 0>>, <<333, 500, 167>>}

\* The /download?mode=bmp handler h1 has fetched the spectral rows.
InitBmp ==
    /\ impl \in Impls
    /\ ChunkIdle
    /\ config = [mode |-> "FIXED", size |-> 1, delimiter |-> 0, window |-> 5]
    /\ file_path = "a.bin"
    /\ ENGINE = 1
    /\ engines = <<NewEngine>>
    /\ pc = [t \in {"h1"} |-> "create_bmp"]
    /\ \E rgb \in BSeq(TripleValues, MaxTriples) :
          loc = [t \in {"h1"} |-> [req |-> "bmp", rgb_data |-> rgb, bmp_bytes |-> <<>>]]
    /\ nreq = 1

\* bmp_bytes = BMPGenerator.create_bmp(rgb_data)
CreateBmp(t) ==
    /\ pc[t] = "create_bmp"
    /\ loc' = [loc EXCEPT ![t].bmp_bytes = create_bmp(loc[t].rgb_data)]
    /\ pc' = [pc EXCEPT ![t] = "done"]
    /\ UNCHANGED <<impl, chunkVars, config, file_path, ENGINE, engines, nreq>>

NextBmp == CreateBmp("h1")

SpecBmp == InitBmp /\ [][NextBmp]_vars

(***************************************************************************)
(* Claims on the BMP encoder                                               *)
(***************************************************************************)
\* reading a BMP header back: the unsigned / signed little-endian integer of
\* k bytes at byte offset pos of bytes
RECURSIVE UnsignedAt(_, _, _)
UnsignedAt(bytes, pos, k) ==
    IF k = 0 THEN 0 ELSE bytes[pos + 1] + 256 * UnsignedAt(bytes, pos + 1, k - 1)

SignedAt(bytes, pos) ==
    IF bytes[pos + 4] >= 128
    THEN -(UnsignedAt([i \in 1..Len(bytes) |-> 255 - bytes[i]], pos, 4)) - 1
    ELSE UnsignedAt(bytes, pos, 4)

\* C29: for n >= 1 triples the header declares width = ceil(sqrt(n)) and a
\* negative height of magnitude ceil(n/width), so width*height >= n; 24 bpp
\* and pixel offset 54; the pixel array is exactly row_stride*height bytes
\* with row_stride = ceil(width*3/4)*4; the declared file size is the real
\* output length 54 + row_stride*height.
C29_BmpGeometry ==
    (pc["h1"] = "done" /\ Len(loc["h1"].rgb_data) >= 1) =>
        LET out == loc["h1"].bmp_bytes
            n == Len(loc["h1"].rgb_data)
            width == SignedAt(out, 18)
            height == -SignedAt(out, 22)
            row_stride == ((width * 3 + 3) \div 4) * 4
        IN  /\ Len(out) >= 54
            /\ SubSeq(out, 1, 2) = <<66, 77>>
            /\ width >= 1 /\ width * width >= n /\ (width - 1) * (width - 1) < n
            /\ height >= 1 /\ width * height >= n /\ width * (height - 1) < n
            /\ UnsignedAt(out, 28, 2) = 24
            /\ UnsignedAt(out, 10, 4) = 54
            /\ Len(out) - 54 = row_stride * height
            /\ UnsignedAt(out, 34, 4) = row_stride * height
            /\ UnsignedAt(out, 2, 4) = Len(out)
            /\ Len(out) = 54 + row_stride * height

\* C29 witness: an encoded stream of at least five triples whose last row
\* is not full and whose rows need padding.
C29_Witness ==
    /\ pc["h1"] = "done"
    /\ LET n == Len(loc["h1"].rgb_data)
           width == SignedAt(loc["h1"].bmp_bytes, 18)
           height == -SignedAt(loc["h1"].bmp_bytes, 22)
       IN  /\ n >= 5
           /\ width * height > n
           /\ (width * 3) % 4 # 0

\* C38: in the pixel array, triple i is at row i div width, column i mod
\* width, as the bytes B, G, R, each channel min(255, floor(x*255)); pixels
\* of index >= n are black; every row is zero-padded to a multiple of 4
\* bytes; the last row holds at least one real pixel.
C38_PixelLayout ==
    (pc["h1"] = "done" /\ Len(loc["h1"].rgb_data) >= 1) =>
        LET out == loc["h1"].bmp_bytes
            rgb == loc["h1"].rgb_data
            n == Len(rgb)
            width == CHOOSE w \in 1..n : w * w >= n /\ (w - 1) * (w - 1) < n
            height == CHOOSE h \in 1..n : width * h >= n /\ width * (h - 1) < n
            stride == CHOOSE r \in (3 * width)..(3 * width + 3) : r % 4 = 0
            channel(x) == IF (x * 255) \div 1000 > 255 THEN 255 ELSE (x * 255) \div 1000
            at(i, c) == out[54 + (i \div width) * stride + 3 * (i % width) + c + 1]
        IN  /\ Len(out) = 54 + stride * height
            /\ \A i \in 0..(width * height - 1) :
                  IF i < n
                  THEN /\ at(i, 0) = channel(rgb[i + 1][3])
                       /\ at(i, 1) = channel(rgb[i + 1][2])
                       /\ at(i, 2) = channel(rgb[i + 1][1])
                  ELSE at(i, 0) = 0 /\ at(i, 1) = 0 /\ at(i, 2) = 0
            /\ \A y \in 0..(height - 1) : \A j \in (3 * width)..(stride - 1) :
                  out[54 + y * stride + j + 1] = 0
            /\ (height - 1) * width < n

\* C38 witness: an encoded stream of five triples of both colours: a 3 x 2
\* image with one black pixel in the last row and 3 padding bytes per row.
C38_Witness ==
    /\ pc["h1"] = "done"
    /\ Len(loc["h1"].rgb_data) = 5
    /\ loc["h1"].rgb_data[1] # loc["h1"].rgb_data[5]
    /\ Len(loc["h1"].bmp_bytes) = 54 + 12 * 2

(***************************************************************************)
(* SpecFreq: ArchID.identify on slices that reach the frequency scoring:   *)
(* a short tail of scoring bytes followed by distinct bytes that no rule   *)
(* counts                                                                  *)
(***************************************************************************)
\* the i-th filler byte: 0x91..0xC2, then 0xC9..; none is printable, a
\* scoring byte, a null or a byte of ArchBytes
FillerByte(i) == IF i <= 50 THEN 144 + i ELSE 150 + i

\* the slice lengths: 16 bytes (H <= 4.0) and 96 bytes (H > 6.0)
FreqLengths == {16, 96}

FreqInputs ==
    {t \o [i \in 1..(n - Len(t)) |-> FillerByte(i)] :
        t \in BSeq(ArchBytes, MaxTail), n \in FreqLengths}

InitFreq ==
    /\ impl \in Impls
    /\ cfile \in FreqInputs
    /\ cscanner = [mode |-> "FIXED", size |-> 1, delimiter |-> 0]
    /\ gen = GenInit
    /\ config = [mode |-> "FIXED", size |-> 1, delimiter |-> 0, window |-> 5]
    /\ file_path = "a.bin"
    /\ ENGINE = 1
    /\ engines = <<NewEngine>>
    /\ pc = [t \in {"h1"} |-> "identify"]
    /\ loc = [t \in {"h1"} |-> [req |-> "identify", result |-> NoResult]]
    /\ nreq = 1

SpecFreq == InitFreq /\ [][NextArch]_vars

\* the labels the frequency scoring returns in either copy
ScoringLabels == FrequencyLabels \cup {"ARM64 Code (Probable)"}

\* C37: when identify returned from the frequency scoring, the winner is the
\* greatest score with ties going to x86, then x64, then ARM64 (x64 beats x86
\* only when 0x48 occurs, ARM64 only when strictly above both); a winning
\* score below 0.05 gives "Unknown High Density Data" when H > 6.0 and
\* "Unknown Binary Data" otherwise; else the winner's "<label> Code (Probable)".
C37_FrequencyWinner ==
    (pc["h1"] = "done" /\ ~loc["h1"].result.raised
        /\ loc["h1"].result.label \in ScoringLabels) =>
        LET data == cfile
            n == Len(data)
            x86 == ScoreX86(data)
            x64 == ScoreX64(data)
            arm == ScoreArm64(data)
            armWins == arm > x86 /\ arm > x64
            x64Wins == ~armWins /\ CountOf(data, 72) > 0
            top == IF armWins THEN arm ELSE IF x64Wins THEN x64 ELSE x86
            label == loc["h1"].result.label
        IN  IF 20 * top < n
            THEN label = (IF EntropyTimesLen(data) > 6000000 * n
                          THEN "Unknown High Density Data" ELSE "Unknown Binary Data")
            ELSE IF armWins THEN label \in {"ARM64 Code (Probable)",
                                            "ARM64 / AArch64 Code (Probable)"}
            ELSE IF x64Wins THEN label = "x86_64 (64-bit) Code (Probable)"
            ELSE label = "x86 (32-bit) Code (Probable)"

(***************************************************************************)
(* SpecEntropy: FastMath.entropy on every short input and on the input of  *)
(* all 256 byte values                                                     *)
(***************************************************************************)
\* FastMath.entropy(data) in millionths of a bit:
\* -sum p*log2(p) = log2 n - (1/n) * sum c*log2 c over the counts c
FastMathEntropyByPosition(data) ==
    IF data = <<>> THEN 0 ELSE Log2MicroOf(Len(data))
FastMathEntropy(data) ==
    IF data = <<>> THEN 0
    ELSE LET n == Len(data)
             counts == Counter(data)
             \* the terms c*log2 c, summed count value by count value
             w == [c \in {counts[b] : b \in DOMAIN counts} |->
                      c * Log2MicroOf(c) * Cardinality({b \in DOMAIN counts : counts[b] = c})]
             num == n * Log2MicroOf(n) - SumOver(w, DOMAIN w)
         IN  IF 2 * (num % n) >= n THEN (num \div n) + 1 ELSE num \div n

\* the 256-byte input that holds every byte value once
AllByteValues == [i \in 1..256 |-> i - 1]

\* A caller c1 is about to compute the entropy of data.
InitEntropy ==
    /\ impl \in Impls
    /\ ChunkIdle
    /\ config = [mode |-> "FIXED", size |-> MaxChunk, delimiter |-> 0, window |-> 5]
    /\ file_path = "a.bin"
    /\ ENGINE = 1
    /\ engines = <<NewEngine>>
    /\ pc = [t \in {"c1"} |-> "entropy"]
    /\ \E data \in BSeq(WorkerBytes, MaxChunk) \cup {AllByteValues} :
          loc = [t \in {"c1"} |-> [req |-> "entropy", data |-> data, ent |-> -1]]
    /\ nreq = 0

\* return ent
EntropyReturn(t) ==
    /\ pc[t] = "entropy"
    /\ loc' = [loc EXCEPT ![t].ent = FastMathEntropy(loc[t].data)]
    /\ pc' = [pc EXCEPT ![t] = "done"]
    /\ UNCHANGED <<impl, chunkVars, config, file_path, ENGINE, engines, nreq>>

NextEntropy == EntropyReturn("c1")

SpecEntropy == InitEntropy /\ [][NextEntropy]_vars

\* C31: entropy is 0 for the empty input and for an input of one repeated
\* byte value, 8.0 for the 256-byte input holding every byte value once,
\* and always within [0, 8].
C31_EntropyValues ==
    pc["c1"] = "done" =>
        LET data == loc["c1"].data
            ent == loc["c1"].ent
        IN  /\ data = <<>> => ent = 0
            /\ (\A i \in 1..Len(data) : data[i] = data[1]) => ent = 0
            /\ data = AllByteValues => ent = 8000000
            /\ 0 <= ent /\ ent <= 8000000

\* C31 witness: the entropy of the input of all 256 byte values was computed.
C31_Witness ==
    pc["c1"] = "done" /\ loc["c1"].data = AllByteValues /\ loc["c1"].ent = 8000000

(***************************************************************************)
(* SpecFail: the result loop of Processor.run when the worker task of one  *)
(* chunk raises                                                            *)
(***************************************************************************)
\* Processor.run has submitted the chunks of some file to the pool; the
\* worker fails on chunk number fails, every other task returns its record.
InitFail ==
    /\ impl \in Impls
    /\ ChunkIdle
    /\ \E w \in 1..MaxWindow :
          config = [mode |-> "FIXED", size |-> 1, delimiter |-> 0, window |-> w]
    /\ file_path = "a.bin"
    /\ ENGINE = 1
    /\ engines = <<NewEngine>>
    /\ pc = [t \in Threads |-> IF t = "main" THEN "run_consume" ELSE "idle"]
    /\ \E ents \in BSeq({0, 7960}, MaxStream) \ {<<>>} : \E k \in 1..Len(ents) :
          loc = [t \in Threads |->
                    IF t = "main"
                    THEN ("fails" :> k) @@
                         [LocInit EXCEPT
                              !.req = "main", !.new_path = "a.bin",
                              !.res = [i \in 1..Len(ents) |->
                                          [offset |-> i - 1, length |-> 1, ent |-> ents[i],
                                           r |-> 0, g |-> 0, b |-> 0]]]
                    ELSE ("fails" :> 0) @@ LocInit]
    /\ nreq = 0

\* the next result of executor.map belongs to a task that returned
ConsumeResult(t) ==
    /\ Group(loc[t].count + 1) # Group(loc[t].fails)
    /\ Consume(t)

\* the next result of executor.map belongs to the task that raised: the
\* exception leaves the for loop, the with block and Processor.run
ResultRaisesAfterFlush(t) ==
    /\ pc[t] = "run_consume"
    /\ loc[t].count < Len(loc[t].res)
    /\ Group(loc[t].count + 1) = Group(loc[t].fails)
    /\ Group(loc[t].count + 1) \in loc[t].done
    /\ engines' = [engines EXCEPT ![ENGINE] =
                      IF loc[t].batch = <<>> THEN @ ELSE insert_bulk(@, loc[t].batch)]
    /\ Raise(t)
    /\ UNCHANGED <<impl, chunkVars, config, file_path, ENGINE, nreq>>
ResultRaises(t) ==
    /\ pc[t] = "run_consume"
    /\ loc[t].count < Len(loc[t].res)
    /\ Group(loc[t].count + 1) = Group(loc[t].fails)
    /\ Group(loc[t].count + 1) \in loc[t].done
    /\ Raise(t)
    /\ UNCHANGED <<impl, chunkVars, config, file_path, ENGINE, engines, nreq>>

NextFail ==
    \/ \E g \in 1..MaxStream : WorkerFinish("main", g)
    \/ ConsumeResult("main")
    \/ ResultRaises("main")

SpecFail == InitFail /\ [][NextFail]_vars

\* C33: when a worker fails on chunk k the scan never completes; no record
\* of chunk k or of a later chunk is persisted, and the store holds a prefix
\* of the stream made of full batches only: once the scan has ended, the
\* full batches flushed before the failure.
C33_FailedScanKeepsFullBatches ==
    LET l == loc["main"]
        rows == engines[ENGINE].rows
    IN  /\ pc["main"] # "main_serve"
        /\ Len(rows) < l.fails
        /\ \A i \in 1..Len(rows) :
              rows[i].offset = l.res[i].offset /\ rows[i].offset < l.res[l.fails].offset
        /\ Len(rows) % BatchSize = 0
        /\ pc["main"] = "crashed" =>
              Len(rows) = (l.count \div BatchSize) * BatchSize

\* C33 witness: the scan has ended with the error after a full batch was
\* flushed, and the records batched since then were not persisted.
C33_Witness ==
    /\ pc["main"] = "crashed"
    /\ Len(engines[ENGINE].rows) >= BatchSize
    /\ loc["main"].batch # <<>>

(***************************************************************************)
(* Claims on the scan of an empty file                                     *)
(***************************************************************************)
\* C39: when a scan of an empty file has ended, no chunk was emitted, no
\* record was batched or inserted and the store holds no record: a /data
\* page is empty with total 0, and the BMP export is the empty byte string.
C39_EmptyFileScan ==
    \A t \in Handlers :
        (pc[t] = "load_respond" /\ FS[loc[t].new_path].data = <<>>) =>
            LET rows == engines[ENGINE].rows IN
            /\ loc[t].res = <<>>
            /\ loc[t].count = 0 /\ loc[t].batch = <<>>
            /\ CountRows(rows)[1].count = 0
            /\ PageResult(PageRows(rows, 0, DefaultPageSize)).chunks = <<>>
            /\ PageResult(PageRows(rows, 0, DefaultPageSize)).anom = <<>>
            /\ create_bmp([i \in 1..Len(rows) |->
                              <<SpectralRows(rows)[i].r_val, SpectralRows(rows)[i].g_val,
                                SpectralRows(rows)[i].b_val>>]) = <<>>

(***************************************************************************)
(* SpecRescan: a /load rescan after the first scan, the pool's results any *)
(* stream of entropies                                                     *)
(***************************************************************************)
\* The first scan (of a.bin) is over and the server is up; handler h1 has
\* accepted a POST /load.
InitRescan ==
    /\ impl \in Impls
    /\ ChunkIdle
    /\ \E w \in 1..MaxWindow :
          config = [mode |-> "FIXED", size |-> 1, delimiter |-> 0, window |-> w]
    /\ file_path = "a.bin"
    /\ ENGINE = 1
    /\ engines = <<ScannedStore(FS["a.bin"].data, ScannerOf(config), impl, config.window)>>
    /\ pc = [t \in Threads |->
                IF t = "main" THEN "serving" ELSE IF t = "h1" THEN "load_validate" ELSE "idle"]
    /\ loc = [t \in Threads |->
                IF t = "main" THEN [LocInit EXCEPT !.req = "main", !.new_path = "a.bin"]
                ELSE IF t = "h1" THEN [LocInit EXCEPT !.req = "load", !.new_path = "b.bin"]
                ELSE LocInit]
    /\ nreq = 1

\* a scan that starts from the entropies of the stored records
RescanSubmitKeepsHistory(t) ==
    /\ pc[t] = "run_submit"
    /\ \E ents \in BSeq(EntValues, MaxStream) :
          loc' = [loc EXCEPT ![t].res = [i \in 1..Len(ents) |->
                                            [offset |-> i - 1, length |-> 1, ent |-> ents[i],
                                             r |-> 0, g |-> 0, b |-> 0]],
                             ![t].done = {}, ![t].count = 0,
                             ![t].hist_ent = [i \in 1..Len(engines[ENGINE].rows) |->
                                                 engines[ENGINE].rows[i].entropy],
                             ![t].prev_ent = 0, ![t].batch = <<>>]
    /\ pc' = [pc EXCEPT ![t] = "run_consume"]
    /\ UNCHANGED <<impl, chunkVars, config, file_path, ENGINE, engines, nreq>>

\* hist_ent = []; batch = []; count = 0; prev_ent = 0.0; executor.map(...):
\* the start of Processor.run, the worker results any stream of records
RescanSubmit(t) ==
    /\ pc[t] = "run_submit"
    /\ \E ents \in BSeq(EntValues, MaxStream) :
          loc' = [loc EXCEPT ![t].res = [i \in 1..Len(ents) |->
                                            [offset |-> i - 1, length |-> 1, ent |-> ents[i],
                                             r |-> 0, g |-> 0, b |-> 0]],
                             ![t].done = {}, ![t].count = 0, ![t].hist_ent = <<>>,
                             ![t].prev_ent = 0, ![t].batch = <<>>]
    /\ pc' = [pc EXCEPT ![t] = "run_consume"]
    /\ UNCHANGED <<impl, chunkVars, config, file_path, ENGINE, engines, nreq>>

NextRescan ==
    \/ LoadValidate("h1")
    \/ LoadSetPath("h1")
    \/ RunClose("h1")
    \/ RunNew("h1")
    \/ RescanSubmit("h1")
    \/ \E g \in 1..MaxStream : WorkerFinish("h1", g)
    \/ Consume("h1")
    \/ RunFinal("h1")
    \/ LoadRespond("h1")

SpecRescan == InitRescan /\ [][NextRescan]_vars

\* C40: every scan, a /load rescan included, starts with prev_ent 0 and an
\* empty history, so its first record has flux_type 1 and anom_score 0.8
\* exactly when its entropy exceeds 6.0 and flux_type 0 and anom_score 0
\* otherwise; it is never a drop (2) or sustained-high (3) record.
C40_FirstRecord ==
    [][\A t \in Threads :
          /\ (pc[t] = "run_submit" /\ pc'[t] = "run_consume") =>
                 (loc'[t].prev_ent = 0 /\ loc'[t].hist_ent = <<>>)
          /\ (pc[t] = "run_consume" /\ loc[t].count = 0 /\ loc'[t].count = 1) =>
                 LET rows == engines'[ENGINE'].rows
                     rec == IF loc'[t].batch # <<>> THEN loc'[t].batch[1]
                            ELSE rows[Len(rows)]
                     high == loc[t].res[1].ent > 6000
                 IN  /\ rec.entropy = loc[t].res[1].ent
                     /\ rec.flux_type = (IF high THEN 1 ELSE 0)
                     /\ rec.anom_score = (IF high THEN 800 * ScoreUnit ELSE 0)
                     /\ rec.flux_type \notin {2, 3}]_vars

\* C40 witness: the rescan has produced its first record, of entropy 7.96,
\* as a spike, while the store still holds records of the first scan.
C40_Witness ==
    /\ pc["h1"] = "run_consume"
    /\ loc["h1"].count = 1
    /\ loc["h1"].res[1].ent = 7960
    /\ loc["h1"].batch # <<>>
    /\ loc["h1"].batch[1].flux_type = 1
    /\ engines[ENGINE].rows # <<>>

====
